---- MODULE Spec2Model ----
(***************************************************************************)
(* Behaviour-tree core of src/src/bt.c: bt_init, bt_tick and the per-type  *)
(* handlers (leaf, Sequence, Selector, Inverter), as a state machine over  *)
(* an arena of nodes.  One bt_tick call is one action: the whole           *)
(* depth-first traversal is computed by the recursive operators below.     *)
(***************************************************************************)
EXTENDS Integers, Sequences, FiniteSets, TLC

VARIABLES
  nodes,        \* arena: node id -> bt_node_t record
  root,         \* id of the node the driver treats as the tree's root
  prev,         \* the arena as it was when the most recent bt_tick was called
  arg,          \* argument of the most recent bt_tick (BT_NULL for a null root, NoTick before any)
  result,       \* value returned by the most recent bt_tick
  trace,        \* events of the most recent bt_tick, in program order
  enter_calls,  \* node id -> number of on_enter invocations so far
  exit_calls,   \* node id -> number of on_exit invocations so far
  tick_calls,   \* node id -> number of tick-callback invocations so far
  ticks,        \* number of bt_tick calls so far
  hist,         \* the bt_tick calls so far, oldest first: [arg, result, trace] each
                \* (recorded by SpecHist only)
  ctx,          \* the memory of the test: [progress, need_ticks], the one
                \* g_ctx.progress every node's blackboard points at and the
                \* local need_ticks (used by SpecLive only)
  frame         \* locals of the bt_tick_sequence / bt_tick_selector call in
                \* progress: [pc, i, result] (used by SpecLoop only)

vars == <<nodes, root, prev, arg, result, trace, enter_calls, exit_calls, tick_calls, ticks, hist, ctx,
          frame>>

(* ===== Program constants (include/bt.h, src/bt.c) ===== *)

BT_NULL == 0

BT_SUCCESS == 0
BT_FAILURE == 1
BT_RUNNING == 2
BT_ERROR == 255

BT_ACTION == 0
BT_CONDITION == 1
BT_SEQUENCE == 2
BT_SELECTOR == 3
BT_INVERTER == 4

UINT16_ZERO == 0
UINT16_ONE == 1

\* uint16_t arithmetic: current_child and the loop index are 16 bits wide
UINT16_MOD == 65536

U16(x) == x % UINT16_MOD

(* ===== Bounds of the model ===== *)

\* largest children_count of a generated composite
MaxChildren == 3

\* number of bt_tick calls explored from each constructed tree
MaxTicks == 3

\* largest number of children of the root in the runs that record their calls
MaxHistChildren == 2

\* largest number of children of the Sequence ticked until it succeeds
MaxLiveChildren == 3

\* largest number of Running results a child gives before it succeeds
MaxRuns == 2

\* largest children_count passed to bt_init in the runs that construct nodes
MaxInitCount == 2

(* ===== Values outside the program ===== *)

\* a type tag that is none of the five enumerators
BadType == 5

\* a tick callback supplied by the user (any non-null function pointer)
UserTick == 1

\* a hook supplied by the user (any non-null function pointer)
UserHook == 1

\* the user_data of the test's action leaf: the address of need_ticks
NeedTicksPtr == 1

\* value of arg and result before the first bt_tick
NoTick == -1

\* what a user tick callback may return
Status == {BT_SUCCESS, BT_FAILURE, BT_RUNNING, BT_ERROR}

Terminal == {BT_SUCCESS, BT_FAILURE, BT_ERROR}

(* ===== Execution state threaded through one bt_tick call =====
   m.nodes : the arena
   m.cb    : what each user tick callback returns when invoked in this call
   m.log   : events so far: "tick" (dispatch on a non-null node that held
             status), "ret" (the dispatch returned status), "tick_fn" (the
             leaf callback returned status), "enter"/"exit" (hook invoked
             while the node held status)                                     *)

Event(ev, n, status) == [ev |-> ev, node |-> n, status |-> status]

Emit(m, ev, n, status) == [m EXCEPT !.log = Append(@, Event(ev, n, status))]

SetStatus(m, n, s) == [m EXCEPT !.nodes[n].status = s]

SetCurrentChild(m, n, c) == [m EXCEPT !.nodes[n].current_child = c]

Ret(m, r) == [m |-> m, result |-> r]

(* ===== Internal helpers ===== *)

bt_call_enter(m, n) ==
  IF n /= BT_NULL /\ m.nodes[n].on_enter /= BT_NULL
    THEN Emit(m, "enter", n, m.nodes[n].status)
    ELSE m

bt_call_exit(m, n) ==
  IF n /= BT_NULL /\ m.nodes[n].on_exit /= BT_NULL
    THEN Emit(m, "exit", n, m.nodes[n].status)
    ELSE m

\* node.children = <<>> is the null children array
bt_child_at(m, n, index) ==
  IF n /= BT_NULL /\ m.nodes[n].children /= <<>> /\ index < m.nodes[n].children_count
    THEN m.nodes[n].children[index + 1]
    ELSE BT_NULL

(* ===== Public API: construction ===== *)

\* mutant: the children list is stored as passed, whatever children_count is
bt_init_keeps_children(ns, n, type, tick_fn, children, children_count, user_data) ==
  IF n /= BT_NULL
    THEN [ns EXCEPT ![n] =
           [type           |-> type,
            status         |-> BT_FAILURE,
            tick           |-> tick_fn,
            on_enter       |-> BT_NULL,
            on_exit        |-> BT_NULL,
            children       |-> children,
            children_count |-> children_count,
            current_child  |-> UINT16_ZERO,
            time_anchor_ms |-> 0,
            user_data      |-> user_data,
            blackboard     |-> BT_NULL]]
    ELSE ns

\* mutant: the status starts as BT_RUNNING
bt_init_running(ns, n, type, tick_fn, children, children_count, user_data) ==
  IF n /= BT_NULL
    THEN [ns EXCEPT ![n] =
           [type           |-> type,
            status         |-> BT_RUNNING,
            tick           |-> tick_fn,
            on_enter       |-> BT_NULL,
            on_exit        |-> BT_NULL,
            children       |-> IF children_count > UINT16_ZERO THEN children ELSE <<>>,
            children_count |-> children_count,
            current_child  |-> UINT16_ZERO,
            time_anchor_ms |-> 0,
            user_data      |-> user_data,
            blackboard     |-> BT_NULL]]
    ELSE ns

bt_init(ns, n, type, tick_fn, children, children_count, user_data) ==
  IF n /= BT_NULL
    THEN [ns EXCEPT ![n] =
           [type           |-> type,
            status         |-> BT_FAILURE,
            tick           |-> tick_fn,
            on_enter       |-> BT_NULL,
            on_exit        |-> BT_NULL,
            children       |-> IF children_count > UINT16_ZERO THEN children ELSE <<>>,
            children_count |-> children_count,
            current_child  |-> UINT16_ZERO,
            time_anchor_ms |-> 0,
            user_data      |-> user_data,
            blackboard     |-> BT_NULL]]
    ELSE ns

(* ===== Handlers ===== *)

\* mutant: a callback's BT_ERROR is stored in the status but reported as a failure
bt_tick_leaf_error_as_failure(m, n) ==
  IF n = BT_NULL
    THEN Ret(m, BT_ERROR)
    ELSE IF m.nodes[n].tick = BT_NULL
      THEN Ret(SetStatus(m, n, BT_ERROR), BT_ERROR)
      ELSE LET r == m.cb[n]
           IN Ret(SetStatus(Emit(m, "tick_fn", n, r), n, r),
                  IF r = BT_ERROR THEN BT_FAILURE ELSE r)

\* mutant: the callback of a leaf runs between its enter and exit hooks
bt_tick_leaf_hooked(m, n) ==
  IF n = BT_NULL
    THEN Ret(m, BT_ERROR)
    ELSE IF m.nodes[n].tick = BT_NULL
      THEN Ret(SetStatus(m, n, BT_ERROR), BT_ERROR)
      ELSE LET r == m.cb[n]
           IN Ret(bt_call_exit(SetStatus(Emit(bt_call_enter(m, n), "tick_fn", n, r), n, r), n), r)

\* mutant: a leaf without callback fails instead of being an error
bt_tick_leaf_no_tick_fails(m, n) ==
  IF n = BT_NULL
    THEN Ret(m, BT_ERROR)
    ELSE IF m.nodes[n].tick = BT_NULL
      THEN Ret(SetStatus(m, n, BT_FAILURE), BT_FAILURE)
      ELSE LET r == m.cb[n]
           IN Ret(SetStatus(Emit(m, "tick_fn", n, r), n, r), r)

\* a leaf without callback is an error; else the callback's result is stored and returned
bt_tick_leaf(m, n) ==
  IF n = BT_NULL
    THEN Ret(m, BT_ERROR)
    ELSE IF m.nodes[n].tick = BT_NULL
      THEN Ret(SetStatus(m, n, BT_ERROR), BT_ERROR)
      ELSE LET r == m.cb[n]
           IN Ret(SetStatus(Emit(m, "tick_fn", n, r), n, r), r)

RECURSIVE bt_tick_internal(_, _)

(* ----- SEQUENCE ----- *)

\* mutant: the cursor is reset on every tick, also on a resumption
bt_tick_sequence_enter_reset(m, n) ==
  IF m.nodes[n].status /= BT_RUNNING
    THEN bt_call_enter(SetCurrentChild(m, n, UINT16_ZERO), n)
    ELSE SetCurrentChild(m, n, UINT16_ZERO)

\* mutant: a fresh episode fires on_enter but keeps the cursor where it was left
bt_tick_sequence_enter_keep_cursor(m, n) ==
  IF m.nodes[n].status /= BT_RUNNING
    THEN bt_call_enter(m, n)
    ELSE m

\* fresh episode: reset the cursor and fire on_enter
bt_tick_sequence_enter(m, n) ==
  IF m.nodes[n].status /= BT_RUNNING
    THEN bt_call_enter(SetCurrentChild(m, n, UINT16_ZERO), n)
    ELSE m

\* mutant: no branch for BT_ERROR, which is handled like a success
bt_tick_sequence_child_no_error(m, n, i, cs) ==
  IF cs = BT_RUNNING
    THEN [m |-> SetStatus(SetCurrentChild(m, n, i), n, BT_RUNNING), result |-> BT_RUNNING, brk |-> TRUE]
  ELSE IF cs = BT_FAILURE
    THEN [m |-> SetStatus(SetCurrentChild(m, n, i), n, BT_FAILURE), result |-> BT_FAILURE, brk |-> TRUE]
  ELSE [m |-> SetCurrentChild(m, n, U16(i + UINT16_ONE)), result |-> BT_SUCCESS, brk |-> FALSE]

\* mutant: a child's BT_RUNNING is returned without being stored in the status
bt_tick_sequence_child_running_unrecorded(m, n, i, cs) ==
  IF cs = BT_RUNNING
    THEN [m |-> SetCurrentChild(m, n, i), result |-> BT_RUNNING, brk |-> TRUE]
  ELSE IF cs = BT_FAILURE
    THEN [m |-> SetStatus(SetCurrentChild(m, n, i), n, BT_FAILURE), result |-> BT_FAILURE, brk |-> TRUE]
  ELSE IF cs = BT_ERROR
    THEN [m |-> SetStatus(SetCurrentChild(m, n, i), n, BT_ERROR), result |-> BT_ERROR, brk |-> TRUE]
  ELSE [m |-> SetCurrentChild(m, n, U16(i + UINT16_ONE)), result |-> BT_SUCCESS, brk |-> FALSE]

\* mutant: a success moves the cursor two slots on
bt_tick_sequence_child_skip(m, n, i, cs) ==
  IF cs = BT_RUNNING
    THEN [m |-> SetStatus(SetCurrentChild(m, n, i), n, BT_RUNNING), result |-> BT_RUNNING, brk |-> TRUE]
  ELSE IF cs = BT_FAILURE
    THEN [m |-> SetStatus(SetCurrentChild(m, n, i), n, BT_FAILURE), result |-> BT_FAILURE, brk |-> TRUE]
  ELSE IF cs = BT_ERROR
    THEN [m |-> SetStatus(SetCurrentChild(m, n, i), n, BT_ERROR), result |-> BT_ERROR, brk |-> TRUE]
  ELSE [m |-> SetCurrentChild(m, n, U16(i + UINT16_ONE + UINT16_ONE)), result |-> BT_SUCCESS, brk |-> FALSE]

\* what the loop body does with the status cs its child i returned;
\* brk tells whether the loop is left
\* bt_tick_sequence_child moving the cursor past a child that failed
bt_tick_sequence_child_failure_advances(m, n, i, cs) ==
  IF cs = BT_RUNNING
    THEN [m |-> SetStatus(SetCurrentChild(m, n, i), n, BT_RUNNING), result |-> BT_RUNNING, brk |-> TRUE]
  ELSE IF cs = BT_FAILURE
    THEN [m |-> SetStatus(SetCurrentChild(m, n, U16(i + UINT16_ONE)), n, BT_FAILURE),
          result |-> BT_FAILURE, brk |-> TRUE]
  ELSE IF cs = BT_ERROR
    THEN [m |-> SetStatus(SetCurrentChild(m, n, i), n, BT_ERROR), result |-> BT_ERROR, brk |-> TRUE]
  ELSE [m |-> SetCurrentChild(m, n, U16(i + UINT16_ONE)), result |-> BT_SUCCESS, brk |-> FALSE]

\* bt_tick_sequence_child storing the advanced cursor through an 8-bit cast
bt_tick_sequence_child_narrow_cursor(m, n, i, cs) ==
  IF cs = BT_RUNNING
    THEN [m |-> SetStatus(SetCurrentChild(m, n, i), n, BT_RUNNING), result |-> BT_RUNNING, brk |-> TRUE]
  ELSE IF cs = BT_FAILURE
    THEN [m |-> SetStatus(SetCurrentChild(m, n, i), n, BT_FAILURE), result |-> BT_FAILURE, brk |-> TRUE]
  ELSE IF cs = BT_ERROR
    THEN [m |-> SetStatus(SetCurrentChild(m, n, i), n, BT_ERROR), result |-> BT_ERROR, brk |-> TRUE]
  ELSE [m |-> SetCurrentChild(m, n, (i + UINT16_ONE) % 256), result |-> BT_SUCCESS, brk |-> FALSE]

bt_tick_sequence_child(m, n, i, cs) ==
  IF cs = BT_RUNNING
    THEN [m |-> SetStatus(SetCurrentChild(m, n, i), n, BT_RUNNING), result |-> BT_RUNNING, brk |-> TRUE]
  ELSE IF cs = BT_FAILURE
    THEN [m |-> SetStatus(SetCurrentChild(m, n, i), n, BT_FAILURE), result |-> BT_FAILURE, brk |-> TRUE]
  ELSE IF cs = BT_ERROR
    THEN [m |-> SetStatus(SetCurrentChild(m, n, i), n, BT_ERROR), result |-> BT_ERROR, brk |-> TRUE]
  ELSE [m |-> SetCurrentChild(m, n, U16(i + UINT16_ONE)), result |-> BT_SUCCESS, brk |-> FALSE]

\* mutant: a child that fails is ticked once more
RECURSIVE bt_tick_sequence_loop_retry(_, _, _)

bt_tick_sequence_loop_retry(m, n, i) ==
  IF ~(i < m.nodes[n].children_count)
    THEN Ret(m, BT_SUCCESS)
    ELSE LET child == bt_child_at(m, n, i)
         IN IF child = BT_NULL
              THEN Ret(SetStatus(m, n, BT_ERROR), BT_ERROR)
              ELSE LET c1 == bt_tick_internal(m, child)
                       c == IF c1.result = BT_FAILURE THEN bt_tick_internal(c1.m, child) ELSE c1
                       s == bt_tick_sequence_child(c.m, n, i, c.result)
                   IN IF s.brk
                        THEN Ret(s.m, s.result)
                        ELSE bt_tick_sequence_loop_retry(s.m, n, U16(i + 1))

\* mutant: a null child slot is passed over
RECURSIVE bt_tick_sequence_loop_skip_null(_, _, _)

bt_tick_sequence_loop_skip_null(m, n, i) ==
  IF ~(i < m.nodes[n].children_count)
    THEN Ret(m, BT_SUCCESS)
    ELSE LET child == bt_child_at(m, n, i)
         IN IF child = BT_NULL
              THEN bt_tick_sequence_loop_skip_null(SetCurrentChild(m, n, U16(i + 1)), n, U16(i + 1))
              ELSE LET c == bt_tick_internal(m, child)
                       s == bt_tick_sequence_child(c.m, n, i, c.result)
                   IN IF s.brk
                        THEN Ret(s.m, s.result)
                        ELSE bt_tick_sequence_loop_skip_null(s.m, n, U16(i + 1))

\* the for loop, entered with index i and result = BT_SUCCESS
RECURSIVE bt_tick_sequence_loop(_, _, _)

bt_tick_sequence_loop(m, n, i) ==
  IF ~(i < m.nodes[n].children_count)
    THEN Ret(m, BT_SUCCESS)
    ELSE LET child == bt_child_at(m, n, i)
         IN IF child = BT_NULL
              THEN Ret(SetStatus(m, n, BT_ERROR), BT_ERROR)
              ELSE LET c == bt_tick_internal(m, child)
                       s == bt_tick_sequence_child(c.m, n, i, c.result)
                   IN IF s.brk
                        THEN Ret(s.m, s.result)
                        ELSE bt_tick_sequence_loop(s.m, n, U16(i + 1))

\* mutant: the exit hook is not fired when the result is BT_ERROR
bt_tick_sequence_finish_no_exit_on_error(r, n) ==
  LET e == IF r.result /= BT_RUNNING
              /\ r.m.nodes[n].current_child >= r.m.nodes[n].children_count
             THEN Ret(SetStatus(r.m, n, BT_SUCCESS), BT_SUCCESS)
             ELSE r
  IN IF e.result = BT_SUCCESS \/ e.result = BT_FAILURE
       THEN Ret(bt_call_exit(e.m, n), e.result)
       ELSE e

\* mutant: the exhaustion test needs the cursor beyond children_count
bt_tick_sequence_finish_strict_exhaustion(r, n) ==
  LET e == IF r.result /= BT_RUNNING
              /\ r.m.nodes[n].current_child > r.m.nodes[n].children_count
             THEN Ret(SetStatus(r.m, n, BT_SUCCESS), BT_SUCCESS)
             ELSE r
  IN IF e.result = BT_SUCCESS \/ e.result = BT_FAILURE \/ e.result = BT_ERROR
       THEN Ret(bt_call_exit(e.m, n), e.result)
       ELSE e

\* mutant: the exit hook is fired before the exhaustion test stores the status
bt_tick_sequence_finish_exit_first(r, n) ==
  LET exhausted == r.result /= BT_RUNNING
                     /\ r.m.nodes[n].current_child >= r.m.nodes[n].children_count
      x == IF exhausted \/ r.result = BT_SUCCESS \/ r.result = BT_FAILURE \/ r.result = BT_ERROR
             THEN bt_call_exit(r.m, n)
             ELSE r.m
  IN IF exhausted
       THEN Ret(SetStatus(x, n, BT_SUCCESS), BT_SUCCESS)
       ELSE Ret(x, r.result)

\* after the loop: exhaustion test, then the exit hook on terminal results
bt_tick_sequence_finish(r, n) ==
  LET e == IF r.result /= BT_RUNNING
              /\ r.m.nodes[n].current_child >= r.m.nodes[n].children_count
             THEN Ret(SetStatus(r.m, n, BT_SUCCESS), BT_SUCCESS)
             ELSE r
  IN IF e.result = BT_SUCCESS \/ e.result = BT_FAILURE \/ e.result = BT_ERROR
       THEN Ret(bt_call_exit(e.m, n), e.result)
       ELSE e

bt_tick_sequence(m, n) ==
  IF n = BT_NULL
    THEN Ret(m, BT_ERROR)
    ELSE LET m1 == bt_tick_sequence_enter(m, n)
         IN bt_tick_sequence_finish(
              bt_tick_sequence_loop(m1, n, m1.nodes[n].current_child), n)

(* ----- SELECTOR ----- *)

\* mutant: the cursor is reset on every tick, also on a resumption
bt_tick_selector_enter_reset(m, n) ==
  IF m.nodes[n].status /= BT_RUNNING
    THEN bt_call_enter(SetCurrentChild(m, n, UINT16_ZERO), n)
    ELSE SetCurrentChild(m, n, UINT16_ZERO)

\* fresh episode: reset the cursor and fire on_enter
\* bt_tick_selector_enter firing on_enter without rewinding the cursor
bt_tick_selector_enter_keep_cursor(m, n) ==
  IF m.nodes[n].status /= BT_RUNNING
    THEN bt_call_enter(m, n)
    ELSE m

bt_tick_selector_enter(m, n) ==
  IF m.nodes[n].status /= BT_RUNNING
    THEN bt_call_enter(SetCurrentChild(m, n, UINT16_ZERO), n)
    ELSE m

\* mutant: a child's BT_ERROR is handled like a failure (try the next child)
bt_tick_selector_child_error_as_failure(m, n, i, cs) ==
  IF cs = BT_RUNNING
    THEN [m |-> SetStatus(SetCurrentChild(m, n, i), n, BT_RUNNING), result |-> BT_RUNNING, brk |-> TRUE]
  ELSE IF cs = BT_SUCCESS
    THEN [m |-> SetStatus(SetCurrentChild(m, n, i), n, BT_SUCCESS), result |-> BT_SUCCESS, brk |-> TRUE]
  ELSE [m |-> SetCurrentChild(m, n, U16(i + UINT16_ONE)), result |-> BT_FAILURE, brk |-> FALSE]

\* mutant: a child's BT_ERROR is returned without being stored in the status
bt_tick_selector_child_error_unrecorded(m, n, i, cs) ==
  IF cs = BT_RUNNING
    THEN [m |-> SetStatus(SetCurrentChild(m, n, i), n, BT_RUNNING), result |-> BT_RUNNING, brk |-> TRUE]
  ELSE IF cs = BT_SUCCESS
    THEN [m |-> SetStatus(SetCurrentChild(m, n, i), n, BT_SUCCESS), result |-> BT_SUCCESS, brk |-> TRUE]
  ELSE IF cs = BT_ERROR
    THEN [m |-> SetCurrentChild(m, n, i), result |-> BT_ERROR, brk |-> TRUE]
  ELSE [m |-> SetCurrentChild(m, n, U16(i + UINT16_ONE)), result |-> BT_FAILURE, brk |-> FALSE]

\* one child result cs at index i: stop on Running, Success or Error, else advance
\* bt_tick_selector_child sending the cursor back to the first child when a
\* child is Running
bt_tick_selector_child_running_restarts(m, n, i, cs) ==
  IF cs = BT_RUNNING
    THEN [m |-> SetStatus(SetCurrentChild(m, n, UINT16_ZERO), n, BT_RUNNING),
          result |-> BT_RUNNING, brk |-> TRUE]
  ELSE IF cs = BT_SUCCESS
    THEN [m |-> SetStatus(SetCurrentChild(m, n, i), n, BT_SUCCESS), result |-> BT_SUCCESS, brk |-> TRUE]
  ELSE IF cs = BT_ERROR
    THEN [m |-> SetStatus(SetCurrentChild(m, n, i), n, BT_ERROR), result |-> BT_ERROR, brk |-> TRUE]
  ELSE [m |-> SetCurrentChild(m, n, U16(i + UINT16_ONE)), result |-> BT_FAILURE, brk |-> FALSE]

bt_tick_selector_child(m, n, i, cs) ==
  IF cs = BT_RUNNING
    THEN [m |-> SetStatus(SetCurrentChild(m, n, i), n, BT_RUNNING), result |-> BT_RUNNING, brk |-> TRUE]
  ELSE IF cs = BT_SUCCESS
    THEN [m |-> SetStatus(SetCurrentChild(m, n, i), n, BT_SUCCESS), result |-> BT_SUCCESS, brk |-> TRUE]
  ELSE IF cs = BT_ERROR
    THEN [m |-> SetStatus(SetCurrentChild(m, n, i), n, BT_ERROR), result |-> BT_ERROR, brk |-> TRUE]
  ELSE [m |-> SetCurrentChild(m, n, U16(i + UINT16_ONE)), result |-> BT_FAILURE, brk |-> FALSE]

\* the for loop, entered with index i and result = BT_FAILURE
RECURSIVE bt_tick_selector_loop(_, _, _)

bt_tick_selector_loop(m, n, i) ==
  IF ~(i < m.nodes[n].children_count)
    THEN Ret(m, BT_FAILURE)
    ELSE LET child == bt_child_at(m, n, i)
         IN IF child = BT_NULL
              THEN Ret(SetStatus(m, n, BT_ERROR), BT_ERROR)
              ELSE LET c == bt_tick_internal(m, child)
                       s == bt_tick_selector_child(c.m, n, i, c.result)
                   IN IF s.brk
                        THEN Ret(s.m, s.result)
                        ELSE bt_tick_selector_loop(s.m, n, U16(i + 1))

\* bt_tick_selector_finish without on_exit when the Selector fails
bt_tick_selector_finish_silent_failure(r, n) ==
  LET e == IF r.result /= BT_RUNNING
              /\ r.m.nodes[n].current_child >= r.m.nodes[n].children_count
             THEN Ret(SetStatus(r.m, n, BT_FAILURE), BT_FAILURE)
             ELSE r
  IN IF e.result = BT_SUCCESS \/ e.result = BT_ERROR
       THEN Ret(bt_call_exit(e.m, n), e.result)
       ELSE e

bt_tick_selector_finish(r, n) ==
  LET e == IF r.result /= BT_RUNNING
              /\ r.m.nodes[n].current_child >= r.m.nodes[n].children_count
             THEN Ret(SetStatus(r.m, n, BT_FAILURE), BT_FAILURE)
             ELSE r
  IN IF e.result = BT_SUCCESS \/ e.result = BT_FAILURE \/ e.result = BT_ERROR
       THEN Ret(bt_call_exit(e.m, n), e.result)
       ELSE e

bt_tick_selector(m, n) ==
  IF n = BT_NULL
    THEN Ret(m, BT_ERROR)
    ELSE LET m1 == bt_tick_selector_enter(m, n)
         IN bt_tick_selector_finish(
              bt_tick_selector_loop(m1, n, m1.nodes[n].current_child), n)

(* ----- INVERTER ----- *)

\* mutant: everything but SUCCESS and RUNNING is inverted to SUCCESS
bt_tick_inverter_map_error_inverted(cs) ==
  IF cs = BT_SUCCESS THEN BT_FAILURE
  ELSE IF cs = BT_RUNNING THEN BT_RUNNING
  ELSE BT_SUCCESS

\* mutant: a child's BT_RUNNING is turned into a success
bt_tick_inverter_map_running_as_success(cs) ==
  IF cs = BT_SUCCESS THEN BT_FAILURE
  ELSE IF cs = BT_FAILURE THEN BT_SUCCESS
  ELSE IF cs = BT_RUNNING THEN BT_SUCCESS
  ELSE cs

\* SUCCESS <-> FAILURE; RUNNING and ERROR propagate
bt_tick_inverter_map(cs) ==
  IF cs = BT_SUCCESS THEN BT_FAILURE
  ELSE IF cs = BT_FAILURE THEN BT_SUCCESS
  ELSE cs

\* mutant: the Inverter moves its cursor past its child when the child is done
bt_tick_inverter_valid_moves_cursor(m, n) ==
  LET child == bt_child_at(m, n, UINT16_ZERO)
      m1 == IF m.nodes[n].status /= BT_RUNNING THEN bt_call_enter(m, n) ELSE m
  IN IF child = BT_NULL
       THEN Ret(m1, BT_ERROR)
       ELSE LET c == bt_tick_internal(m1, child)
                r == bt_tick_inverter_map(c.result)
                m2 == SetStatus(c.m, n, r)
            IN IF r = BT_SUCCESS \/ r = BT_FAILURE \/ r = BT_ERROR
                 THEN Ret(bt_call_exit(SetCurrentChild(m2, n, UINT16_ONE), n), r)
                 ELSE Ret(m2, r)

\* the branch taken when children_count is exactly one
\* bt_tick_inverter_valid calling on_enter only after the child was ticked
bt_tick_inverter_valid_late_enter(m, n) ==
  LET child == bt_child_at(m, n, UINT16_ZERO)
  IN IF child = BT_NULL
       THEN Ret(IF m.nodes[n].status /= BT_RUNNING THEN bt_call_enter(m, n) ELSE m, BT_ERROR)
       ELSE LET c == bt_tick_internal(m, child)
                m1 == IF m.nodes[n].status /= BT_RUNNING THEN bt_call_enter(c.m, n) ELSE c.m
                r == bt_tick_inverter_map(c.result)
                m2 == SetStatus(m1, n, r)
            IN IF r = BT_SUCCESS \/ r = BT_FAILURE \/ r = BT_ERROR
                 THEN Ret(bt_call_exit(m2, n), r)
                 ELSE Ret(m2, r)

bt_tick_inverter_valid(m, n) ==
  LET child == bt_child_at(m, n, UINT16_ZERO)
      m1 == IF m.nodes[n].status /= BT_RUNNING THEN bt_call_enter(m, n) ELSE m
  IN IF child = BT_NULL
       THEN Ret(m1, BT_ERROR)
       ELSE LET c == bt_tick_internal(m1, child)
                r == bt_tick_inverter_map(c.result)
                m2 == SetStatus(c.m, n, r)
            IN IF r = BT_SUCCESS \/ r = BT_FAILURE \/ r = BT_ERROR
                 THEN Ret(bt_call_exit(m2, n), r)
                 ELSE Ret(m2, r)

\* mutant: only a childless Inverter is rejected
bt_tick_inverter_zero_only(m, n) ==
  IF n = BT_NULL \/ m.nodes[n].children_count = UINT16_ZERO
    THEN Ret(m, BT_ERROR)
    ELSE bt_tick_inverter_valid(m, n)

bt_tick_inverter(m, n) ==
  IF n = BT_NULL \/ m.nodes[n].children_count /= UINT16_ONE
    THEN Ret(m, BT_ERROR)
    ELSE bt_tick_inverter_valid(m, n)

(* ----- Dispatcher ----- *)

\* mutant: the switch has no case for BT_CONDITION
bt_tick_dispatch_no_condition(m, n) ==
  LET t == m.nodes[n].type
  IN IF t = BT_ACTION THEN bt_tick_leaf(m, n)
     ELSE IF t = BT_SEQUENCE THEN bt_tick_sequence(m, n)
     ELSE IF t = BT_SELECTOR THEN bt_tick_selector(m, n)
     ELSE IF t = BT_INVERTER THEN bt_tick_inverter(m, n)
     ELSE Ret(SetStatus(m, n, BT_ERROR), BT_ERROR)

\* mutant: an unknown type tag is reported but not stored in the status
bt_tick_dispatch_unknown_unrecorded(m, n) ==
  LET t == m.nodes[n].type
  IN IF t = BT_ACTION \/ t = BT_CONDITION THEN bt_tick_leaf(m, n)
     ELSE IF t = BT_SEQUENCE THEN bt_tick_sequence(m, n)
     ELSE IF t = BT_SELECTOR THEN bt_tick_selector(m, n)
     ELSE IF t = BT_INVERTER THEN bt_tick_inverter(m, n)
     ELSE Ret(m, BT_ERROR)

\* the switch on node->type, for a non-null node
bt_tick_dispatch(m, n) ==
  LET t == m.nodes[n].type
  IN IF t = BT_ACTION \/ t = BT_CONDITION THEN bt_tick_leaf(m, n)
     ELSE IF t = BT_SEQUENCE THEN bt_tick_sequence(m, n)
     ELSE IF t = BT_SELECTOR THEN bt_tick_selector(m, n)
     ELSE IF t = BT_INVERTER THEN bt_tick_inverter(m, n)
     ELSE Ret(SetStatus(m, n, BT_ERROR), BT_ERROR)

bt_tick_internal(m, n) ==
  IF n = BT_NULL
    THEN Ret(m, BT_ERROR)
    ELSE LET r == bt_tick_dispatch(Emit(m, "tick", n, m.nodes[n].status), n)
         IN Ret(Emit(r.m, "ret", n, r.result), r.result)

(* ===== Public API: execution ===== *)

\* mutant: the result for a null root is left at zero
bt_tick_null_zero(m, r) ==
  IF r /= BT_NULL
    THEN bt_tick_internal(m, r)
    ELSE Ret(m, BT_SUCCESS)

bt_tick(m, r) ==
  IF r /= BT_NULL
    THEN bt_tick_internal(m, r)
    ELSE Ret(m, BT_ERROR)

(* ===== Construction of the trees that are ticked ===== *)

\* caller-owned storage for k nodes, before bt_init (bt_init assigns every field)
Storage(k) ==
  [i \in 1..k |->
     [type |-> BadType, status |-> BT_ERROR, tick |-> BT_NULL,
      on_enter |-> BT_NULL, on_exit |-> BT_NULL, children |-> <<>>,
      children_count |-> 0, current_child |-> 0, time_anchor_ms |-> 0,
      user_data |-> BT_NULL, blackboard |-> BT_NULL]]

\* post-construction wiring: the caller sets the hooks and the blackboard directly
Wire(ns, hooks) ==
  [i \in DOMAIN ns |->
     [ns[i] EXCEPT !.on_enter = IF hooks THEN UserHook ELSE BT_NULL,
                   !.on_exit = IF hooks THEN UserHook ELSE BT_NULL,
                   !.blackboard = 1]]

LeafType(j) == IF j % 2 = 0 THEN BT_CONDITION ELSE BT_ACTION

\* bt_init of the leaves at ids from..to of the arena
RECURSIVE InitLeaves(_, _, _, _, _)

InitLeaves(ns, from, to, bad, kind) ==
  IF from > to
    THEN ns
    ELSE InitLeaves(
           bt_init(ns, from,
                   IF kind = "bad_type" /\ from = bad THEN BadType ELSE LeafType(from),
                   IF kind = "no_tick" /\ from = bad THEN BT_NULL ELSE UserTick,
                   <<>>, 0, BT_NULL),
           from + 1, to, bad, kind)

\* node 1 of the given type over count leaves (ids 2..count+1); kind says what
\* is malformed about child slot bad (1-based), if anything: "ok" nothing,
\* "null_slot" the slot is BT_NULL, "no_tick" the leaf has no callback,
\* "bad_type" the child has an unknown type tag, "null_array" the children
\* array itself is BT_NULL
FlatTree(type, count, bad, kind) ==
  LET leaves == InitLeaves(Storage(count + 1), 2, count + 1, bad + 1, kind)
      arr == IF kind = "null_array"
               THEN <<>>
               ELSE [j \in 1..count |-> IF kind = "null_slot" /\ j = bad THEN BT_NULL ELSE j + 1]
  IN bt_init(leaves, 1, type, BT_NULL, arr, count, BT_NULL)

FlatTrees ==
  { FlatTree(t, c, 0, "ok") : t \in {BT_SEQUENCE, BT_SELECTOR, BT_INVERTER}, c \in 0..MaxChildren }
  \cup
  UNION { { FlatTree(t, c, b, k) : b \in 1..c, k \in {"null_slot", "no_tick", "bad_type"} } :
          t \in {BT_SEQUENCE, BT_SELECTOR, BT_INVERTER}, c \in 1..MaxChildren }
  \cup
  { FlatTree(t, c, 0, "null_array") : t \in {BT_SEQUENCE, BT_SELECTOR, BT_INVERTER}, c \in 1..MaxChildren }

\* a single node: a leaf with or without callback, or a node with a bad type tag
SingleTrees ==
  { bt_init(Storage(1), 1, t, f, <<>>, 0, BT_NULL) :
      t \in {BT_ACTION, BT_CONDITION, BadType}, f \in {BT_NULL, UserTick} }

\* node 1 of type outer over leaf 2 and node 3 of type inner (node 3 alone
\* when node 1 is an Inverter); node 3 has leaves 4 and 5 (leaf 4 alone when
\* it is an Inverter)
NestedTree(outer, inner) ==
  LET leaves == InitLeaves(InitLeaves(Storage(5), 2, 2, 0, "ok"), 4, 5, 0, "ok")
      mid == bt_init(leaves, 3, inner, BT_NULL,
                     IF inner = BT_INVERTER THEN <<4>> ELSE <<4, 5>>,
                     IF inner = BT_INVERTER THEN 1 ELSE 2, BT_NULL)
  IN bt_init(mid, 1, outer, BT_NULL,
             IF outer = BT_INVERTER THEN <<3>> ELSE <<2, 3>>,
             IF outer = BT_INVERTER THEN 1 ELSE 2, BT_NULL)

NestedTrees ==
  { NestedTree(o, i) : o \in {BT_SEQUENCE, BT_SELECTOR, BT_INVERTER},
                       i \in {BT_SEQUENCE, BT_SELECTOR, BT_INVERTER} }

\* a node with a bad type tag that has a child
BadTypeTrees == { FlatTree(BadType, 1, 0, "ok") }

\* every tree with the hooks set on all its nodes; the one-child trees also
\* with no hook set
Trees ==
  { Wire(t, TRUE) : t \in FlatTrees \cup SingleTrees \cup NestedTrees \cup BadTypeTrees }
  \cup
  { Wire(FlatTree(t, 1, 0, "ok"), FALSE) : t \in {BT_SEQUENCE, BT_SELECTOR, BT_INVERTER} }

(* ===== State machine ===== *)

\* nodes whose tick callback can be invoked
Callbacks(ns) ==
  { n \in DOMAIN ns : ns[n].tick /= BT_NULL /\ ns[n].type \in {BT_ACTION, BT_CONDITION} }

\* number of events ev on node n in a log
RECURSIVE Count(_, _, _)

Count(log, ev, n) ==
  IF log = <<>>
    THEN 0
    ELSE (IF Head(log).ev = ev /\ Head(log).node = n THEN 1 ELSE 0) + Count(Tail(log), ev, n)

Zero(ns) == [n \in DOMAIN ns |-> 0]

\* the first leaf whose callback the log shows invoked and that is not in
\* decided; BT_NULL when there is none
RECURSIVE FirstUndecided(_, _)

FirstUndecided(log, decided) ==
  IF log = <<>>
    THEN BT_NULL
    ELSE IF Head(log).ev = "tick_fn" /\ Head(log).node \notin decided
      THEN Head(log).node
      ELSE FirstUndecided(Tail(log), decided)

\* The behaviours of the user callbacks that bt_tick(r) can tell apart in
\* arena ns: one assignment of returned statuses per combination of results
\* of the callbacks the traversal invokes (a callback that is not invoked
\* returns nothing; its entry stays at the value of cb).
RECURSIVE Oracles(_, _, _, _)

OraclesAfter(ns, r, decided, cb, x) ==
  IF x = BT_NULL
    THEN {cb}
    ELSE UNION { Oracles(ns, r, decided \cup {x}, [n \in DOMAIN cb |-> IF n = x THEN s ELSE cb[n]]) :
                 s \in Status }

Oracles(ns, r, decided, cb) ==
  OraclesAfter(ns, r, decided, cb,
               FirstUndecided(bt_tick([nodes |-> ns, cb |-> cb, log |-> <<>>], r).m.log, decided))

CallbackResults(ns, r) ==
  Oracles(ns, r, {}, [n \in Callbacks(ns) |-> BT_SUCCESS])

\* the test memory as bt_test_reset_ctx and the declaration of need_ticks leave it
NoCtx == [progress |-> 0, need_ticks |-> 1]

\* no composite tick in progress
NoFrame == [pc |-> "none", i |-> UINT16_ZERO, result |-> BT_ERROR]

Init ==
  /\ nodes \in Trees
  /\ root = 1
  /\ prev = nodes
  /\ arg = NoTick
  /\ result = NoTick
  /\ trace = <<>>
  /\ enter_calls = Zero(nodes)
  /\ exit_calls = Zero(nodes)
  /\ tick_calls = Zero(nodes)
  /\ ticks = 0
  /\ hist = <<>>
  /\ ctx = NoCtx
  /\ frame = NoFrame

\* one call bt_tick(r) during which the tick callbacks return what cb says
Call(r, cb) ==
  /\ \E out \in {bt_tick([nodes |-> nodes, cb |-> cb, log |-> <<>>], r)} :
        /\ nodes' = out.m.nodes
        /\ result' = out.result
        /\ trace' = out.m.log
        /\ enter_calls' = [n \in DOMAIN nodes |-> enter_calls[n] + Count(out.m.log, "enter", n)]
        /\ exit_calls' = [n \in DOMAIN nodes |-> exit_calls[n] + Count(out.m.log, "exit", n)]
        /\ tick_calls' = [n \in DOMAIN nodes |-> tick_calls[n] + Count(out.m.log, "tick_fn", n)]
  /\ prev' = nodes
  /\ arg' = r
  /\ ticks' = ticks + 1
  /\ UNCHANGED root

\* one of the MaxTicks calls of a run with arbitrary callbacks
Tick(r, cb) ==
  /\ ticks < MaxTicks
  /\ Call(r, cb)
  /\ UNCHANGED <<ctx, frame>>

\* the driver ticks the root
TickRoot == (\E cb \in CallbackResults(nodes, root) : Tick(root, cb)) /\ UNCHANGED hist

\* the driver passes a null root
TickNull == (\E cb \in CallbackResults(nodes, BT_NULL) : Tick(BT_NULL, cb)) /\ UNCHANGED hist

Next == TickRoot \/ TickNull

Spec == Init /\ [][Next]_vars

(* ===== The same machine, recording every call ===== *)

Recorded == hist' = Append(hist, [arg |-> arg', result |-> result', trace |-> trace'])

TickRootRecorded == (\E cb \in CallbackResults(nodes, root) : Tick(root, cb)) /\ Recorded

TickNullRecorded == (\E cb \in CallbackResults(nodes, BT_NULL) : Tick(BT_NULL, cb)) /\ Recorded

NextHist == TickRootRecorded \/ TickNullRecorded

\* the trees whose root is a Sequence, a Selector or an Inverter over at most
\* MaxHistChildren children, hooks set on every node
CompositeTrees ==
  { t \in Trees : /\ t[1].type \in {BT_SEQUENCE, BT_SELECTOR, BT_INVERTER}
                  /\ t[1].children_count <= MaxHistChildren
                  /\ t[1].on_enter /= BT_NULL }

InitHist ==
  /\ nodes \in CompositeTrees
  /\ root = 1
  /\ prev = nodes
  /\ arg = NoTick
  /\ result = NoTick
  /\ trace = <<>>
  /\ enter_calls = Zero(nodes)
  /\ exit_calls = Zero(nodes)
  /\ tick_calls = Zero(nodes)
  /\ ticks = 0
  /\ hist = <<>>
  /\ ctx = NoCtx
  /\ frame = NoFrame

SpecHist == InitHist /\ [][NextHist]_vars

(* ===== A Sequence over the test callbacks, ticked until it succeeds ===== *)

\* CONDITION: always SUCCESS
leaf_cond_true(ns, c, n) ==
  IF n /= BT_NULL
    THEN [ctx |-> c, result |-> BT_SUCCESS]
    ELSE [ctx |-> c, result |-> BT_ERROR]

\* the need of an action leaf whose user_data is null
DefaultNeed == 3

\* ACTION: progresses until *user_data ticks are reached, then SUCCESS
leaf_action_progress(ns, c, n) ==
  IF n /= BT_NULL /\ ns[n].blackboard /= BT_NULL
    THEN LET need == IF ns[n].user_data /= BT_NULL THEN c.need_ticks ELSE DefaultNeed
         IN IF c.progress < need
              THEN [ctx |-> [c EXCEPT !.progress = @ + 1], result |-> BT_RUNNING]
              ELSE [ctx |-> c, result |-> BT_SUCCESS]
    ELSE [ctx |-> c, result |-> BT_ERROR]

\* the callback bound to leaf n
TestCallback(ns, c, n) ==
  IF ns[n].type = BT_CONDITION
    THEN leaf_cond_true(ns, c, n)
    ELSE leaf_action_progress(ns, c, n)

\* what each callback returns when invoked in test memory c.  A callback
\* that changes the memory returns Running, which ends the tick of the
\* Sequence, so every callback invoked in one tick finds the memory as it
\* was when the tick began.
LiveCallbacks(ns, c) == [n \in Callbacks(ns) |-> TestCallback(ns, c, n).result]

\* the test memory after the callbacks that log shows invoked have run, in
\* the order of their invocation
RECURSIVE AfterCallbacks(_, _, _)

AfterCallbacks(ns, c, log) ==
  IF log = <<>>
    THEN c
    ELSE AfterCallbacks(ns,
                        IF Head(log).ev = "tick_fn" THEN TestCallback(ns, c, Head(log).node).ctx ELSE c,
                        Tail(log))

\* progress = 0, as the driver sets it after a success
ResetProgress(c) == [c EXCEPT !.progress = 0]

\* the leaves of the test: the always-SUCCESS Condition, the progress Action
\* given &need_ticks, and the progress Action given no user_data
LiveLeafKinds == {"cond", "action", "action_default"}

\* bt_init of the leaves at ids 2.. of the arena, of the kinds given
RECURSIVE InitLiveLeaves(_, _, _)

InitLiveLeaves(ns, kinds, j) ==
  IF j > Len(kinds)
    THEN ns
    ELSE InitLiveLeaves(
           bt_init(ns, j + 1, IF kinds[j] = "cond" THEN BT_CONDITION ELSE BT_ACTION,
                   UserTick, <<>>, 0, IF kinds[j] = "action" THEN NeedTicksPtr ELSE BT_NULL),
           kinds, j + 1)

\* Sequence (node 1) over Len(kinds) such leaves, blackboard set on every
\* node, no hook
LiveTree(kinds) ==
  Wire(bt_init(InitLiveLeaves(Storage(Len(kinds) + 1), kinds, 1), 1, BT_SEQUENCE, BT_NULL,
               [j \in 1..Len(kinds) |-> j + 1], Len(kinds), BT_NULL),
       FALSE)

\* the values of need_ticks
LiveNeeds == 0..MaxRuns

\* the rounds of the driver's loop: enough for the largest need and a second
\* success after it
LiveTicks == MaxLiveChildren * MaxRuns + 2

InitLive ==
  \E c \in 1..MaxLiveChildren : \E kinds \in [1..c -> LiveLeafKinds] : \E need \in LiveNeeds :
    /\ nodes = LiveTree(kinds)
    /\ root = 1
    /\ prev = nodes
    /\ arg = NoTick
    /\ result = NoTick
    /\ trace = <<>>
    /\ enter_calls = Zero(nodes)
    /\ exit_calls = Zero(nodes)
    /\ tick_calls = Zero(nodes)
    /\ ticks = 0
    /\ hist = <<>>
    /\ ctx = [progress |-> 0, need_ticks |-> need]
    /\ frame = NoFrame

\* one round of the driver's loop: tick the root, reset the progress on success
TickLive ==
  /\ ticks < LiveTicks
  /\ Call(root, LiveCallbacks(nodes, ctx))
  /\ ctx' = IF result' = BT_SUCCESS
              THEN ResetProgress(AfterCallbacks(nodes, ctx, trace'))
              ELSE AfterCallbacks(nodes, ctx, trace')
  /\ UNCHANGED <<hist, frame>>

NextLive == TickLive

\* the driver's for loop counts one more round
LoopRound == ticks < LiveTicks /\ ticks' = ticks + 1

\* the loop goes on to its next round while it has one: bt_tick returns
SpecLive == InitLive /\ [][NextLive]_vars /\ WF_ticks(LoopRound)

(* ===== Construction: bt_init on storage in any condition ===== *)

\* storage of one node that was in use: every field holds something
UsedStorage ==
  [i \in 1..1 |->
     [type |-> BT_SELECTOR, status |-> BT_RUNNING, tick |-> UserTick,
      on_enter |-> UserHook, on_exit |-> UserHook, children |-> <<2, 3>>,
      children_count |-> 2, current_child |-> 1, time_anchor_ms |-> 1,
      user_data |-> 1, blackboard |-> 1]]

\* the arguments of a bt_init call; children is the list passed (ids 2, 3 are
\* nodes outside this storage, <<>> is a null list)
InitArgs ==
  [node : {BT_NULL, 1},
   type : {BT_ACTION, BT_SEQUENCE, BadType},
   tick_fn : {BT_NULL, UserTick},
   children : {<<>>, <<2>>, <<2, 3>>},
   children_count : 0..MaxInitCount,
   user_data : {BT_NULL, 1}]

\* no call yet
NoInit ==
  [node |-> NoTick, type |-> BT_ACTION, tick_fn |-> BT_NULL, children |-> <<>>,
   children_count |-> 0, user_data |-> BT_NULL]

InitStorage ==
  /\ nodes \in {Storage(1), UsedStorage}
  /\ root = 1
  /\ prev = nodes
  /\ arg = NoInit
  /\ result = NoTick
  /\ trace = <<>>
  /\ enter_calls = Zero(nodes)
  /\ exit_calls = Zero(nodes)
  /\ tick_calls = Zero(nodes)
  /\ ticks = 0
  /\ hist = <<>>
  /\ ctx = NoCtx
  /\ frame = NoFrame

\* one call bt_init(a.node, a.type, a.tick_fn, a.children, a.children_count, a.user_data)
InitCall(a) ==
  /\ nodes' = bt_init(nodes, a.node, a.type, a.tick_fn, a.children, a.children_count, a.user_data)
  /\ prev' = nodes
  /\ arg' = a
  /\ UNCHANGED <<root, result, trace, enter_calls, exit_calls, tick_calls, ticks, hist, ctx, frame>>

\* the caller initialises the node
InitNode == \E a \in InitArgs : a.node /= BT_NULL /\ InitCall(a)

\* the caller passes a null node
InitNull == \E a \in InitArgs : a.node = BT_NULL /\ InitCall(a)

NextInit == InitNode \/ InitNull

SpecInit == InitStorage /\ [][NextInit]_vars

(* ===== The loop of bt_tick_sequence / bt_tick_selector, one iteration per step ===== *)

MaxLoopSmall == 2

\* the children_count values ticked step by step: the small ones and the
\* largest a uint16_t holds
LoopCounts == (0..MaxLoopSmall) \cup {UINT16_MOD - 1}

\* a Sequence or Selector (node 1) whose count slots all hold the same leaf
\* (node 2); the array is kept as its one distinct element
LoopTree(type, count) ==
  Wire(bt_init(bt_init(Storage(2), 2, BT_ACTION, UserTick, <<>>, 0, BT_NULL),
               1, type, BT_NULL, <<2>>, count, BT_NULL),
       TRUE)

\* bt_child_at on an array whose slots all hold the same pointer
bt_child_at_shared(m, n, index) ==
  IF n /= BT_NULL /\ m.nodes[n].children /= <<>> /\ index < m.nodes[n].children_count
    THEN m.nodes[n].children[1]
    ELSE BT_NULL

\* what the leaf callback may return at each invocation
LoopResults == Status

InitLoop ==
  /\ nodes \in { LoopTree(type, count) : type \in {BT_SEQUENCE, BT_SELECTOR}, count \in LoopCounts }
  /\ root = 1
  /\ prev = nodes
  /\ arg = NoTick
  /\ result = NoTick
  /\ trace = <<>>
  /\ enter_calls = Zero(nodes)
  /\ exit_calls = Zero(nodes)
  /\ tick_calls = Zero(nodes)
  /\ ticks = 0
  /\ hist = <<>>
  /\ ctx = NoCtx
  /\ frame = NoFrame

\* the events of one step are counted and kept as the trace
LoopLogged(log) ==
  /\ trace' = log
  /\ enter_calls' = [n \in DOMAIN nodes |-> enter_calls[n] + Count(log, "enter", n)]
  /\ exit_calls' = [n \in DOMAIN nodes |-> exit_calls[n] + Count(log, "exit", n)]
  /\ tick_calls' = [n \in DOMAIN nodes |-> tick_calls[n] + Count(log, "tick_fn", n)]

\* the call reaches the loop: fresh-episode test, assumed result, i = cursor
LoopEnter ==
  /\ frame.pc = "none" /\ ticks = 0
  /\ \E m \in {IF nodes[root].type = BT_SEQUENCE
                 THEN bt_tick_sequence_enter([nodes |-> nodes, cb |-> <<>>, log |-> <<>>], root)
                 ELSE bt_tick_selector_enter([nodes |-> nodes, cb |-> <<>>, log |-> <<>>], root)} :
       /\ nodes' = m.nodes
       /\ LoopLogged(m.log)
       /\ frame' = [pc |-> "loop", i |-> m.nodes[root].current_child,
                    result |-> IF nodes[root].type = BT_SEQUENCE THEN BT_SUCCESS ELSE BT_FAILURE]
  /\ prev' = nodes
  /\ arg' = root
  /\ ticks' = ticks + 1
  /\ UNCHANGED <<root, result, hist, ctx>>

\* one iteration of the for loop: the child at i is looked up and ticked,
\* the cursor and status are updated, and the loop breaks or i is incremented
LoopIteration ==
  /\ frame.pc = "loop" /\ frame.i < nodes[root].children_count
  /\ \E r \in LoopResults :
       LET m == [nodes |-> nodes, cb |-> [n \in Callbacks(nodes) |-> r], log |-> <<>>]
           child == bt_child_at_shared(m, root, frame.i)
       IN IF child = BT_NULL
            THEN /\ nodes' = SetStatus(m, root, BT_ERROR).nodes
                 /\ LoopLogged(<<>>)
                 /\ frame' = [frame EXCEPT !.pc = "finish", !.result = BT_ERROR]
            ELSE \E s \in {IF nodes[root].type = BT_SEQUENCE
                             THEN bt_tick_sequence_child(bt_tick_internal(m, child).m, root, frame.i,
                                                         bt_tick_internal(m, child).result)
                             ELSE bt_tick_selector_child(bt_tick_internal(m, child).m, root, frame.i,
                                                         bt_tick_internal(m, child).result)} :
                   /\ nodes' = s.m.nodes
                   /\ LoopLogged(s.m.log)
                   /\ frame' = IF s.brk
                                 THEN [frame EXCEPT !.pc = "finish", !.result = s.result]
                                 ELSE [frame EXCEPT !.i = U16(frame.i + 1)]
  /\ UNCHANGED <<root, prev, arg, result, ticks, hist, ctx>>

\* the loop condition i < children_count fails
LoopExit ==
  /\ frame.pc = "loop" /\ ~(frame.i < nodes[root].children_count)
  /\ frame' = [frame EXCEPT !.pc = "finish"]
  /\ UNCHANGED <<nodes, root, prev, arg, result, trace, enter_calls, exit_calls, tick_calls, ticks,
                 hist, ctx>>

\* after the loop: exhaustion test, on_exit on a terminal result, return
LoopFinish ==
  /\ frame.pc = "finish"
  /\ \E out \in {IF nodes[root].type = BT_SEQUENCE
                   THEN bt_tick_sequence_finish(
                          Ret([nodes |-> nodes, cb |-> <<>>, log |-> <<>>], frame.result), root)
                   ELSE bt_tick_selector_finish(
                          Ret([nodes |-> nodes, cb |-> <<>>, log |-> <<>>], frame.result), root)} :
       /\ nodes' = out.m.nodes
       /\ result' = out.result
       /\ LoopLogged(out.m.log)
       /\ frame' = [frame EXCEPT !.pc = "done", !.result = out.result]
  /\ UNCHANGED <<root, prev, arg, ticks, hist, ctx>>

NextLoop == LoopEnter \/ LoopIteration \/ LoopExit \/ LoopFinish

SpecLoop == InitLoop /\ [][NextLoop]_vars

(* ===== Observations on the most recent bt_tick ===== *)

Ids == DOMAIN nodes

IsEv(e, ev, n) == e.ev = ev /\ e.node = n

\* the events ev on node n, in order
Evs(ev, n) == SelectSeq(trace, LAMBDA e : IsEv(e, ev, n))

\* node n was dispatched in the most recent bt_tick
Ticked(n) == Len(Evs("tick", n)) > 0

\* what that dispatch returned
Returned(n) == Evs("ret", n)[1].status

\* the status n held when it was dispatched
Entered(n) == Evs("tick", n)[1].status

\* the non-null child slots of n
ChildSet(n) == { nodes[n].children[j] : j \in 1..Len(nodes[n].children) } \ {BT_NULL}

\* the returns of the children of n, in order
ChildRets(n) == SelectSeq(trace, LAMBDA e : e.ev = "ret" /\ e.node \in ChildSet(n))

\* the user callbacks invoked, in order
LeafCalls == SelectSeq(trace, LAMBDA e : e.ev = "tick_fn")

\* every child slot of n refers to a node
AllSlotsNonNull(n) ==
  /\ Len(nodes[n].children) = nodes[n].children_count
  /\ \A j \in 1..nodes[n].children_count : nodes[n].children[j] /= BT_NULL

\* the child index a tick of n starts from
StartIndex(n) == IF Entered(n) /= BT_RUNNING THEN 0 ELSE prev[n].current_child

\* A composite n was ticked: its children were ticked in increasing index
\* order from the start index, every one but the last returned adv, and
\* either the last returned something else, which is the result, with the
\* cursor at that child, or all returned adv up to the last slot and the
\* result is adv with the cursor at children_count.
FoldsChildren(n, adv) ==
  LET rets == ChildRets(n)
      k == Len(rets)
      start == StartIndex(n)
  IN /\ start + k <= nodes[n].children_count
     /\ \A j \in 1..k : rets[j].node = nodes[n].children[start + j]
     /\ \A j \in 1..(k - 1) : rets[j].status = adv
     /\ IF k > 0 /\ rets[k].status /= adv
          THEN /\ Returned(n) = rets[k].status
               /\ Returned(n) \in {BT_SUCCESS, BT_FAILURE, BT_RUNNING, BT_ERROR} \ {adv}
               /\ nodes[n].current_child = start + k - 1
          ELSE /\ start + k = nodes[n].children_count
               /\ Returned(n) = adv
               /\ nodes[n].current_child = nodes[n].children_count

(* ===== Claims ===== *)

\* C1: one tick of a Sequence whose child slots are all non-null ticks the
\* children in increasing index order from its cursor (0 on a fresh episode),
\* stops at the first child that does not return Success, returns that
\* child's result with the cursor at its index, and returns Success with the
\* cursor at children_count when every remaining child returned Success; no
\* child after the stopping one is ticked.
C1_SequenceTick ==
  \A n \in Ids :
    (nodes[n].type = BT_SEQUENCE /\ AllSlotsNonNull(n) /\ Ticked(n))
      => FoldsChildren(n, BT_SUCCESS)

\* a three-child Sequence resumed at child 1, which succeeded, stopped at
\* child 2, which failed
C1_Witness ==
  \E n \in Ids :
    /\ nodes[n].type = BT_SEQUENCE /\ AllSlotsNonNull(n) /\ Ticked(n)
    /\ nodes[n].children_count = 3
    /\ Entered(n) = BT_RUNNING /\ prev[n].current_child = 1
    /\ Len(ChildRets(n)) = 2
    /\ Returned(n) = BT_FAILURE /\ nodes[n].current_child = 2

\* C2: one tick of a Selector whose child slots are all non-null ticks the
\* children in increasing index order from its cursor, stops at the first
\* child that does not return Failure, returns that child's result with the
\* cursor at its index, and returns Failure when every remaining child
\* returned Failure; Selector[always-Failure, always-Success] ticked once
\* returns Success after invoking both callbacks once, in order.
C2_SelectorTick ==
  /\ \A n \in Ids :
       (nodes[n].type = BT_SELECTOR /\ AllSlotsNonNull(n) /\ Ticked(n))
         => FoldsChildren(n, BT_FAILURE)
  /\ ( /\ ticks = 1 /\ arg = root
       /\ nodes[root].type = BT_SELECTOR /\ nodes[root].children = <<2, 3>>
       /\ Callbacks(nodes) = {2, 3}
       /\ Len(LeafCalls) >= 1 /\ LeafCalls[1].status = BT_FAILURE )
     => /\ Len(LeafCalls) = 2
        /\ LeafCalls[1].node = 2 /\ LeafCalls[2].node = 3
        /\ LeafCalls[2].status = BT_SUCCESS => result = BT_SUCCESS

\* Selector[Failure, Success] ticked once from a fresh state: both callbacks
\* ran, the result is Success with the cursor at child 1
C2_Witness ==
  /\ ticks = 1 /\ arg = root
  /\ nodes[root].type = BT_SELECTOR /\ nodes[root].children = <<2, 3>>
  /\ Callbacks(nodes) = {2, 3}
  /\ LeafCalls = <<Event("tick_fn", 2, BT_FAILURE), Event("tick_fn", 3, BT_SUCCESS)>>
  /\ result = BT_SUCCESS /\ nodes[root].current_child = 1

IsComposite(n) == nodes[n].type = BT_SEQUENCE \/ nodes[n].type = BT_SELECTOR

HasHooks(n) == nodes[n].on_enter /= BT_NULL /\ nodes[n].on_exit /= BT_NULL

\* position in the trace of the first event ev on node n
Pos(ev, n) == CHOOSE i \in 1..Len(trace) : IsEv(trace[i], ev, n)

\* C3: resumption law.  A Sequence or Selector returns Running only because
\* its child at the cursor returned Running, and then holds status Running
\* with the cursor at that child k; a bt_tick that does not reach the node
\* leaves both alone; and the next tick of the node, whatever the callbacks
\* return by then, ticks child k first and no child with a smaller index,
\* does not reset the cursor and does not fire on_enter.
C3_Resumption ==
  \A n \in Ids : IsComposite(n) =>
    /\ (Ticked(n) /\ Returned(n) = BT_RUNNING) =>
         /\ nodes[n].status = BT_RUNNING
         /\ nodes[n].current_child < nodes[n].children_count
         /\ Len(ChildRets(n)) > 0
         /\ ChildRets(n)[Len(ChildRets(n))] =
              Event("ret", nodes[n].children[nodes[n].current_child + 1], BT_RUNNING)
    /\ ~Ticked(n) =>
         /\ nodes[n].status = prev[n].status
         /\ nodes[n].current_child = prev[n].current_child
    /\ (Ticked(n) /\ prev[n].status = BT_RUNNING) =>
         LET k == prev[n].current_child
         IN /\ Len(ChildRets(n)) > 0
            /\ ChildRets(n)[1].node = nodes[n].children[k + 1]
            /\ \A j \in 1..Len(ChildRets(n)) : \A i \in 1..k :
                 ChildRets(n)[j].node /= nodes[n].children[i]
            /\ nodes[n].current_child >= k
            /\ Evs("enter", n) = <<>>

\* a Selector left Running at child 2 is ticked again: child 2 is the first
\* and only callback invoked, and it now fails
C3_Witness ==
  \E n \in Ids :
    /\ nodes[n].type = BT_SELECTOR /\ HasHooks(n)
    /\ Ticked(n) /\ prev[n].status = BT_RUNNING /\ prev[n].current_child = 2
    /\ LeafCalls = <<Event("tick_fn", nodes[n].children[3], BT_FAILURE)>>
    /\ Returned(n) = BT_FAILURE

\* C4: hook law for composites.  A tick of a Sequence or Selector (with both
\* hooks set) fires on_enter once if it is entered with a status other than
\* Running and not at all otherwise, and fires on_exit once if it returns
\* Success, Failure or Error and not at all if it returns Running; hence
\* the on_enter calls exceed the on_exit calls by one while an episode is
\* open (status Running) and equal them otherwise: one on_enter and one
\* on_exit per episode, however many Running ticks it spans.
C4_CompositeHooks ==
  \A n \in Ids : (IsComposite(n) /\ HasHooks(n)) =>
    /\ Ticked(n) =>
         /\ Len(Evs("enter", n)) = IF Entered(n) /= BT_RUNNING THEN 1 ELSE 0
         /\ Len(Evs("exit", n)) = IF Returned(n) \in Terminal THEN 1 ELSE 0
    /\ ~Ticked(n) => (Evs("enter", n) = <<>> /\ Evs("exit", n) = <<>>)
    /\ enter_calls[n] = exit_calls[n] + (IF nodes[n].status = BT_RUNNING THEN 1 ELSE 0)

\* an episode of three ticks (Running, Running, then Error from a child)
\* with one on_enter and one on_exit in all
C4_Witness ==
  \E n \in Ids :
    /\ IsComposite(n) /\ HasHooks(n)
    /\ ticks = 3 /\ Ticked(n) /\ Entered(n) = BT_RUNNING /\ Returned(n) = BT_ERROR
    /\ \E c \in ChildSet(n) : tick_calls[c] = 3
    /\ enter_calls[n] = 1 /\ exit_calls[n] = 1

\* C5: hook law for the decorator.  For an Inverter with children_count = 1
\* (both hooks set), a tick that returns Success, Failure or Error fires
\* on_exit once, also when the Error comes from a null child slot, and after
\* any tick the on_enter calls exceed the on_exit calls by one if its status
\* is Running and equal them otherwise.
C5_InverterHooks ==
  \A n \in Ids :
    (nodes[n].type = BT_INVERTER /\ nodes[n].children_count = 1 /\ HasHooks(n)) =>
      /\ (Ticked(n) /\ Returned(n) \in Terminal) => Len(Evs("exit", n)) = 1
      /\ enter_calls[n] = exit_calls[n] + (IF nodes[n].status = BT_RUNNING THEN 1 ELSE 0)

\* the exchange of Success and Failure
Swapped(s) ==
  CASE s = BT_SUCCESS -> BT_FAILURE
    [] s = BT_FAILURE -> BT_SUCCESS
    [] s = BT_RUNNING -> BT_RUNNING
    [] s = BT_ERROR -> BT_ERROR

\* C6: Inverter law.  A tick of an Inverter with exactly one non-null child
\* ticks that child exactly once, returns Failure for the child's Success,
\* Success for its Failure, Running for Running and Error for Error, and
\* stores the returned value in its status.
C6_InverterLaw ==
  \A n \in Ids :
    ( /\ nodes[n].type = BT_INVERTER /\ nodes[n].children_count = 1
      /\ AllSlotsNonNull(n) /\ Ticked(n) ) =>
      /\ Len(ChildRets(n)) = 1
      /\ ChildRets(n)[1].node = nodes[n].children[1]
      /\ Len(Evs("tick", nodes[n].children[1])) = 1
      /\ Returned(n) = Swapped(ChildRets(n)[1].status)
      /\ nodes[n].status = Returned(n)

\* an Inverter whose child returned Error returns Error
C6_Witness ==
  \E n \in Ids :
    /\ nodes[n].type = BT_INVERTER /\ nodes[n].children_count = 1
    /\ AllSlotsNonNull(n) /\ Ticked(n)
    /\ ChildRets(n) = <<Event("ret", nodes[n].children[1], BT_ERROR)>>
    /\ Returned(n) = BT_ERROR /\ nodes[n].status = BT_ERROR

\* C7: an Inverter whose children_count is not 1 returns Error on every
\* tick, in every reachable state, and the tick reaches no child: nothing
\* happens between its dispatch and its return.
C7_InverterArity ==
  \A n \in Ids :
    (nodes[n].type = BT_INVERTER /\ nodes[n].children_count /= 1 /\ Ticked(n)) =>
      /\ Returned(n) = BT_ERROR
      /\ Pos("ret", n) = Pos("tick", n) + 1
      /\ \A c \in ChildSet(n) : ~Ticked(c)
      /\ \A c \in ChildSet(n) : nodes[c] = prev[c]

\* an Inverter over two leaves with callbacks, ticked for the second time
C7_Witness ==
  \E n \in Ids :
    /\ nodes[n].type = BT_INVERTER /\ nodes[n].children_count = 2
    /\ AllSlotsNonNull(n) /\ ChildSet(n) \subseteq Callbacks(nodes)
    /\ ticks = 2 /\ Ticked(n) /\ Returned(n) = BT_ERROR
    /\ prev = nodes

\* C8: bt_tick on a null root returns Error and has no side effect: no node
\* changes and no callback or hook is invoked.
C8_NullRoot ==
  arg = BT_NULL =>
    /\ result = BT_ERROR
    /\ nodes = prev
    /\ trace = <<>>

\* a null root passed while the tree is in the middle of an episode
C8_Witness ==
  /\ arg = BT_NULL /\ result = BT_ERROR
  /\ nodes[root].status = BT_RUNNING
  /\ enter_calls[root] = 1 /\ exit_calls[root] = 0

\* C9: after every tick of a non-null node of any type, malformed or not,
\* the node's status equals the result the tick returned for it.
C9_StatusIsResult ==
  \A n \in Ids : Ticked(n) => nodes[n].status = Returned(n)

\* C10: every node's cursor stays within 0..children_count.
C10_CursorRange ==
  \A n \in Ids :
    /\ 0 <= nodes[n].current_child
    /\ nodes[n].current_child <= nodes[n].children_count

\* a Sequence of three children exhausted them: its cursor is at children_count
C10_Witness ==
  \E n \in Ids :
    /\ nodes[n].type = BT_SEQUENCE /\ nodes[n].children_count = 3
    /\ Ticked(n) /\ Len(ChildRets(n)) = 3
    /\ nodes[n].current_child = 3

(* ===== Observations on the recorded calls ===== *)

TickedIn(tr, n) == \E i \in 1..Len(tr) : IsEv(tr[i], "tick", n)

EnteredIn(tr, n) == SelectSeq(tr, LAMBDA e : IsEv(e, "tick", n))[1].status

ReturnedIn(tr, n) == SelectSeq(tr, LAMBDA e : IsEv(e, "ret", n))[1].status

ChildRetsIn(tr, n) == SelectSeq(tr, LAMBDA e : e.ev = "ret" /\ e.node \in ChildSet(n))

\* the returns of the children of n during the most recent episode of n in
\* the calls h: from the last tick that n entered with a status other than
\* BT_RUNNING up to the last tick of n
RECURSIVE EpisodeRets(_, _)

EpisodeRets(h, n) ==
  IF h = <<>>
    THEN <<>>
    ELSE LET last == h[Len(h)].trace
             rest == SubSeq(h, 1, Len(h) - 1)
         IN IF ~TickedIn(last, n)
              THEN EpisodeRets(rest, n)
              ELSE IF EnteredIn(last, n) /= BT_RUNNING
                     THEN ChildRetsIn(last, n)
                     ELSE EpisodeRets(rest, n) \o ChildRetsIn(last, n)

\* the number of ticks of n in that episode
RECURSIVE EpisodeTicks(_, _)

EpisodeTicks(h, n) ==
  IF h = <<>>
    THEN 0
    ELSE LET last == h[Len(h)].trace
             rest == SubSeq(h, 1, Len(h) - 1)
         IN IF ~TickedIn(last, n)
              THEN EpisodeTicks(rest, n)
              ELSE IF EnteredIn(last, n) /= BT_RUNNING
                     THEN 1
                     ELSE EpisodeTicks(rest, n) + 1

\* the returns other than BT_RUNNING among rets
Decisive(rets) == SelectSeq(rets, LAMBDA e : e.status /= BT_RUNNING)

\* the most recent call ended an episode of n
EpisodeEnded(n) == Ticked(n) /\ Returned(n) \in Terminal

\* An episode of the composite n has ended. Its children gave their results
\* other than Running one child after the other from child 0, every one but
\* the last gave adv, and the episode's last child return is the last of
\* them. The episode ends in adv exactly when all children_count children
\* gave adv; otherwise it ends in the other result of the last child, with
\* the cursor at that child, or, if nullSlot, in Error at the null slot that
\* follows the children that gave adv, with the cursor at that slot.
EpisodeFolds(n, adv, nullSlot) ==
  LET rets == EpisodeRets(hist, n)
      d == Decisive(rets)
      k == Len(d)
  IN /\ k <= nodes[n].children_count
     /\ k <= Len(nodes[n].children)
     /\ \A j \in 1..k : d[j].node = nodes[n].children[j]
     /\ \A j \in 1..(k - 1) : d[j].status = adv
     /\ Len(rets) > 0 => (k > 0 /\ rets[Len(rets)] = d[k])
     /\ (Returned(n) = adv) <=> (k = nodes[n].children_count /\ \A j \in 1..k : d[j].status = adv)
     /\ (Returned(n) /= adv) =>
          \/ /\ k > 0
             /\ d[k].status \in Terminal \ {adv}
             /\ Returned(n) = d[k].status
             /\ nodes[n].current_child = k - 1
          \/ /\ nullSlot
             /\ \A j \in 1..k : d[j].status = adv
             /\ bt_child_at([nodes |-> nodes], n, k) = BT_NULL
             /\ Returned(n) = BT_ERROR
             /\ nodes[n].current_child = k

(* ===== Claims on episodes ===== *)

\* C11 as stated: an episode of a Sequence ends in Success if and only if
\* every child 0..n-1 returned Success during it, in index order and exactly
\* once each; otherwise it ends with the first Failure or Error returned by a
\* child, with the cursor at that child's index.
C11_SequenceEpisodeAsStated ==
  \A n \in Ids :
    (nodes[n].type = BT_SEQUENCE /\ EpisodeEnded(n)) => EpisodeFolds(n, BT_SUCCESS, FALSE)

\* C11: an episode of a Sequence ends in Success if and only if every child
\* 0..n-1 returned Success during it, in index order and exactly once each;
\* otherwise it ends with the first Failure or Error returned by a child, or
\* with Error at the first null child slot reached, with the cursor at that
\* index.
C11_SequenceEpisode ==
  \A n \in Ids :
    (nodes[n].type = BT_SEQUENCE /\ EpisodeEnded(n)) => EpisodeFolds(n, BT_SUCCESS, TRUE)

\* a two-child Sequence succeeded in its third tick, after each child had
\* returned Running once
C11_Witness ==
  \E n \in Ids :
    /\ nodes[n].type = BT_SEQUENCE /\ EpisodeEnded(n)
    /\ nodes[n].children_count = 2
    /\ EpisodeTicks(hist, n) = 3
    /\ Len(EpisodeRets(hist, n)) = 4
    /\ Returned(n) = BT_SUCCESS

\* C12 as stated: an episode of a Selector ends in Failure if and only if
\* every child 0..n-1 returned Failure during it, in index order; otherwise
\* it ends with the first Success or Error returned by a child, and no child
\* after that one is ticked in the episode.
C12_SelectorEpisodeAsStated ==
  \A n \in Ids :
    (nodes[n].type = BT_SELECTOR /\ EpisodeEnded(n)) => EpisodeFolds(n, BT_FAILURE, FALSE)

\* C12: an episode of a Selector ends in Failure if and only if every child
\* 0..n-1 returned Failure during it, in index order; otherwise it ends with
\* the first Success or Error returned by a child, or with Error at the first
\* null child slot reached, and no child after that one is ticked in the
\* episode.
C12_SelectorEpisode ==
  \A n \in Ids :
    (nodes[n].type = BT_SELECTOR /\ EpisodeEnded(n)) => EpisodeFolds(n, BT_FAILURE, TRUE)

\* a two-child Selector whose first child returned Running, then Failure, and
\* whose second child returned Running, then Success, in the third tick
C12_Witness ==
  \E n \in Ids :
    /\ nodes[n].type = BT_SELECTOR /\ EpisodeEnded(n)
    /\ nodes[n].children_count = 2
    /\ EpisodeTicks(hist, n) = 3
    /\ Len(EpisodeRets(hist, n)) = 4
    /\ Returned(n) = BT_SUCCESS

(* ===== Claims on scenarios ===== *)

\* the results of the recorded calls, oldest first
Results == [i \in 1..Len(hist) |-> hist[i].result]

\* the results of the callback of leaf n over the calls h, oldest first
RECURSIVE CallbackReturns(_, _)

CallbackReturns(h, n) ==
  IF h = <<>>
    THEN <<>>
    ELSE CallbackReturns(SubSeq(h, 1, Len(h) - 1), n)
           \o SelectSeq(h[Len(h)].trace, LAMBDA e : IsEv(e, "tick_fn", n))

IsPrefix(s, t) == Len(s) <= Len(t) /\ \A i \in 1..Len(s) : s[i] = t[i]

Statuses(evs) == [i \in 1..Len(evs) |-> evs[i].status]

\* the tree is Sequence[Condition, Action], both leaves with a callback
IsConditionThenAction ==
  /\ nodes[root].type = BT_SEQUENCE
  /\ nodes[root].children_count = 2
  /\ AllSlotsNonNull(root)
  /\ LET c == nodes[root].children[1]
         a == nodes[root].children[2]
     IN /\ nodes[c].type = BT_CONDITION /\ nodes[c].tick /= BT_NULL
        /\ nodes[a].type = BT_ACTION /\ nodes[a].tick /= BT_NULL

\* Scenario A so far: only the root was ticked, the condition has always
\* returned Success, and the action has returned Running to its first and
\* second invocation and Success to its third
ScenarioA ==
  /\ IsConditionThenAction
  /\ \A i \in 1..Len(hist) : hist[i].arg = root
  /\ \A i \in 1..Len(CallbackReturns(hist, nodes[root].children[1])) :
        CallbackReturns(hist, nodes[root].children[1])[i].status = BT_SUCCESS
  /\ IsPrefix(Statuses(CallbackReturns(hist, nodes[root].children[2])),
              <<BT_RUNNING, BT_RUNNING, BT_SUCCESS>>)

\* C13: Scenario A. A freshly initialised Sequence[Condition always Success,
\* Action returning Running, Running, Success] ticked three times returns
\* Running, Running, Success; the condition callback is invoked once, in the
\* first tick, and the action callback three times, once per tick.
C13_ScenarioA ==
  (ScenarioA /\ Len(hist) = 3) =>
    LET c == nodes[root].children[1]
        a == nodes[root].children[2]
    IN /\ Results = <<BT_RUNNING, BT_RUNNING, BT_SUCCESS>>
       /\ Len(CallbackReturns(hist, c)) = 1
       /\ Len(CallbackReturns(SubSeq(hist, 1, 1), c)) = 1
       /\ Len(CallbackReturns(hist, a)) = 3
       /\ \A i \in 1..3 : Len(CallbackReturns(SubSeq(hist, i, i), a)) = 1
       /\ tick_calls[c] = 1
       /\ tick_calls[a] = 3

\* the third tick of Scenario A has returned Success
C13_Witness ==
  /\ ScenarioA /\ Len(hist) = 3
  /\ result = BT_SUCCESS
  /\ tick_calls[nodes[root].children[2]] = 3

(* ===== Claims on fresh episodes, empty composites, errors and leaves ===== *)

\* A tick of the composite n started afresh: on_enter (when set) fired once,
\* before any child was ticked; the children ticked are children 0, 1, ... in
\* index order, child 0 included unless there is no slot 0 or it is null; and
\* the cursor ends at the index of the last child ticked or just past it.
StartsAfresh(n) ==
  LET rets == ChildRets(n)
      k == Len(rets)
      enters == Evs("enter", n)
  IN /\ Len(enters) = (IF nodes[n].on_enter /= BT_NULL THEN 1 ELSE 0)
     /\ \A i, j \in 1..Len(trace) :
          (IsEv(trace[i], "enter", n) /\ trace[j].ev = "tick" /\ trace[j].node \in ChildSet(n))
            => i < j
     /\ k <= Len(nodes[n].children)
     /\ \A j \in 1..k : rets[j].node = nodes[n].children[j]
     /\ bt_child_at([nodes |-> nodes], n, 0) /= BT_NULL => k >= 1
     /\ nodes[n].current_child \in {k - 1, k} \ {-1}

\* C14: a Sequence or Selector ticked while its status is terminal (Success,
\* Failure or Error) starts a fresh episode: on_enter fires again, the
\* children are ticked from child 0 wherever the cursor was left, and the
\* cursor is counted from 0; no terminal status, Error included, is sticky.
C14_FreshEpisode ==
  \A n \in Ids :
    (nodes[n].type \in {BT_SEQUENCE, BT_SELECTOR} /\ Ticked(n) /\ Entered(n) \in Terminal)
      => StartsAfresh(n)

\* a Sequence left in Error with its cursor at child 1 or later was ticked
\* again and ticked its child 0
C14_Witness ==
  \E n \in Ids :
    /\ nodes[n].type = BT_SEQUENCE /\ Ticked(n)
    /\ Entered(n) = BT_ERROR /\ prev[n].current_child >= 1
    /\ Len(Evs("enter", n)) = 1
    /\ Len(ChildRets(n)) >= 1
    /\ ChildRets(n)[1].node = nodes[n].children[1]

\* C15: a tick of a Sequence with zero children returns Success and a tick of
\* a Selector with zero children returns Failure, on every tick; no leaf
\* callback is invoked, the node's status is the returned value, and on_enter
\* and on_exit each fire once in that tick.
C15_EmptyComposite ==
  \A n \in Ids :
    (nodes[n].type \in {BT_SEQUENCE, BT_SELECTOR} /\ nodes[n].children_count = 0 /\ Ticked(n))
      => /\ Returned(n) = (IF nodes[n].type = BT_SEQUENCE THEN BT_SUCCESS ELSE BT_FAILURE)
         /\ nodes[n].status = Returned(n)
         /\ ChildRets(n) = <<>>
         /\ (n = arg => LeafCalls = <<>>)
         /\ (nodes[n].on_enter /= BT_NULL => Len(Evs("enter", n)) = 1)
         /\ (nodes[n].on_exit /= BT_NULL => Len(Evs("exit", n)) = 1)

\* the third tick of a Sequence with zero children
C15_Witness ==
  \E n \in Ids :
    /\ nodes[n].type = BT_SEQUENCE /\ nodes[n].children_count = 0 /\ Ticked(n)
    /\ ticks = 3
    /\ enter_calls[n] = 3 /\ exit_calls[n] = 3
    /\ nodes[n].status = BT_SUCCESS

\* C16: when a child of a Sequence or of a Selector returns Error, the
\* composite returns Error in that same tick, its status is Error, its cursor
\* is at that child's index and no later child is ticked (a Selector does not
\* go on to its next child as it does after a Failure); an Inverter whose
\* child returns Error returns Error.
C16_ChildError ==
  \A n \in Ids :
    Ticked(n) =>
      \A j \in 1..Len(ChildRets(n)) :
        ChildRets(n)[j].status = BT_ERROR =>
          /\ Returned(n) = BT_ERROR
          /\ nodes[n].type \in {BT_SEQUENCE, BT_SELECTOR} =>
               /\ nodes[n].status = BT_ERROR
               /\ j = Len(ChildRets(n))
               /\ bt_child_at([nodes |-> nodes], n, nodes[n].current_child) = ChildRets(n)[j].node

\* a Selector whose child 0 failed and whose child 1 returned Error, with a
\* further child left unticked
C16_Witness ==
  \E n \in Ids :
    /\ nodes[n].type = BT_SELECTOR /\ Ticked(n)
    /\ nodes[n].children_count = 3
    /\ Len(ChildRets(n)) = 2
    /\ ChildRets(n)[1].status = BT_FAILURE
    /\ ChildRets(n)[2].status = BT_ERROR
    /\ Returned(n) = BT_ERROR /\ nodes[n].current_child = 1

\* C17: a tick of an Action or Condition leaf that has a callback invokes the
\* callback exactly once and returns the callback's status unchanged, be it
\* Success, Failure, Running or Error, and the leaf's status is that value.
C17_LeafTick ==
  \A n \in Ids :
    (nodes[n].type \in {BT_ACTION, BT_CONDITION} /\ nodes[n].tick /= BT_NULL /\ Ticked(n))
      => /\ Len(Evs("tick_fn", n)) = 1
         /\ Evs("tick_fn", n)[1].status \in Status
         /\ Returned(n) = Evs("tick_fn", n)[1].status
         /\ nodes[n].status = Returned(n)

\* three leaves hold the statuses their callbacks returned: one Failure, one
\* Success, and one, Running before, has just returned Error
C17_Witness ==
  \E a, b, c \in Callbacks(nodes) :
    /\ nodes[a].status = BT_FAILURE /\ tick_calls[a] = 1
    /\ nodes[b].status = BT_SUCCESS /\ tick_calls[b] = 1
    /\ prev[c].status = BT_RUNNING
    /\ Ticked(c) /\ Returned(c) = BT_ERROR /\ nodes[c].status = BT_ERROR

\* every child slot non-null, every Inverter with exactly one child, every
\* leaf with a callback, every type tag valid
WellFormed ==
  \A n \in Ids :
    /\ nodes[n].type \in {BT_ACTION, BT_CONDITION, BT_SEQUENCE, BT_SELECTOR, BT_INVERTER}
    /\ nodes[n].type \in {BT_ACTION, BT_CONDITION} => nodes[n].tick /= BT_NULL
    /\ nodes[n].type \in {BT_SEQUENCE, BT_SELECTOR, BT_INVERTER} => AllSlotsNonNull(n)
    /\ nodes[n].type = BT_INVERTER => nodes[n].children_count = 1

\* C18: a tick of the root of a well-formed tree in which no callback returns
\* Error does not return Error, whatever the earlier ticks did and whatever
\* the callbacks make of the blackboard.
C18_NoSpuriousError ==
  (WellFormed /\ arg = root /\ \A i \in 1..Len(LeafCalls) : LeafCalls[i].status /= BT_ERROR)
    => result \in {BT_SUCCESS, BT_FAILURE, BT_RUNNING}

\* the third tick of a well-formed nested tree, whose inner composite and a
\* leaf of it were ticked; no callback has returned Error
C18_Witness ==
  /\ WellFormed /\ arg = root /\ ticks = 3
  /\ \A i \in 1..Len(LeafCalls) : LeafCalls[i].status /= BT_ERROR
  /\ \E n \in Ids \ {root} :
       /\ nodes[n].type \in {BT_SEQUENCE, BT_SELECTOR, BT_INVERTER}
       /\ Ticked(n) /\ Len(ChildRets(n)) >= 1
  /\ \A n \in Ids : nodes[n].status /= BT_ERROR
  /\ result = BT_RUNNING

(* ===== Claims on progress ===== *)

\* the sum of f over the children of n from slot j on
RECURSIVE SumOverChildren(_, _, _)

SumOverChildren(f, n, j) ==
  IF j > nodes[n].children_count
    THEN 0
    ELSE f[nodes[n].children[j]] + SumOverChildren(f, n, j + 1)

\* C19: a Sequence whose children each return Running finitely many times
\* when reached and then Success, ticked repeatedly, eventually returns
\* Success, and has by then ticked every child: the callbacks were invoked
\* once for each Running result (one per earlier tick) and once for the
\* Success of each child, so no child was skipped and none ticked again
\* after its Success.
C19_SequenceLiveness ==
  <>(/\ arg = root /\ result = BT_SUCCESS
     /\ \A j \in 1..nodes[root].children_count : tick_calls[nodes[root].children[j]] >= 1
     /\ SumOverChildren(tick_calls, root, 1) = (ticks - 1) + nodes[root].children_count)

\* the first Success of a Sequence[condition, action, action] with
\* need_ticks = 2: the third tick, the first action invoked three times,
\* the other leaves once, the progress reset
C19_Witness ==
  /\ nodes[root].type = BT_SEQUENCE /\ nodes[root].children_count = 3
  /\ nodes[2].type = BT_CONDITION
  /\ nodes[3].user_data /= BT_NULL /\ nodes[4].user_data /= BT_NULL
  /\ ctx.need_ticks = 2 /\ ctx.progress = 0
  /\ tick_calls[2] = 1 /\ tick_calls[3] = 3 /\ tick_calls[4] = 1
  /\ ticks = 3
  /\ arg = root /\ result = BT_SUCCESS

(* ===== Claims on construction ===== *)

\* C20: bt_init on a non-null node stores the given type, tick callback,
\* children_count and user_data, sets the cursor to 0 and clears on_enter,
\* on_exit and blackboard; with children_count 0 the node holds the null
\* children list whatever list was passed (else the list passed); bt_init on
\* a null node changes nothing.
C20_Init ==
  arg.node /= NoTick =>
    IF arg.node /= BT_NULL
      THEN /\ nodes[arg.node].type = arg.type
           /\ nodes[arg.node].tick = arg.tick_fn
           /\ nodes[arg.node].children_count = arg.children_count
           /\ nodes[arg.node].user_data = arg.user_data
           /\ nodes[arg.node].current_child = 0
           /\ nodes[arg.node].on_enter = BT_NULL
           /\ nodes[arg.node].on_exit = BT_NULL
           /\ nodes[arg.node].blackboard = BT_NULL
           /\ nodes[arg.node].children =
                (IF arg.children_count = 0 THEN <<>> ELSE arg.children)
      ELSE nodes = prev

\* a node in use, with hooks, blackboard and a cursor, was initialised with
\* children_count 0 and a non-null list
C20_Witness ==
  /\ arg.node = 1
  /\ arg.children_count = 0 /\ arg.children = <<2, 3>>
  /\ arg.tick_fn = UserTick /\ arg.user_data = 1
  /\ prev[1].on_enter = UserHook /\ prev[1].blackboard /= BT_NULL
  /\ prev[1].current_child = 1
  /\ nodes[1].children = <<>>

\* C21: immediately after bt_init the node's status is a sentinel: none of
\* Success, Failure, Error, and not Running.
C21_InitSentinel ==
  (arg.node /= NoTick /\ arg.node /= BT_NULL)
    => nodes[arg.node].status \notin {BT_SUCCESS, BT_FAILURE, BT_ERROR, BT_RUNNING}

(* ===== Claims on malformed nodes, hooks and frames ===== *)

\* the result with which a child lets composite n go on to its next child
Advances(n) == IF nodes[n].type = BT_SEQUENCE THEN BT_SUCCESS ELSE BT_FAILURE

\* the null child slots of n at or after index start (all of them when the
\* children array is null)
NullSlotsFrom(n, start) ==
  { i \in start..(nodes[n].children_count - 1) : bt_child_at([nodes |-> nodes], n, i) = BT_NULL }

\* the tick of n reached slot i from its start index: every child before i
\* that it had to tick let it go on
ReachedSlot(n, i) ==
  /\ Len(ChildRets(n)) >= i - StartIndex(n)
  /\ \A j \in 1..(i - StartIndex(n)) : ChildRets(n)[j].status = Advances(n)

\* C22: when a tick of a Sequence or Selector reaches a null child slot at
\* index i (a null children array with children_count > 0 included), it
\* returns Error, the status is Error, the cursor is i, on_exit fires, no
\* child after i is ticked, and the children before i were ticked in order.
C22_NullSlot ==
  \A n \in Ids :
    (nodes[n].type \in {BT_SEQUENCE, BT_SELECTOR} /\ Ticked(n)) =>
      \A i \in NullSlotsFrom(n, StartIndex(n)) :
        ((\A h \in NullSlotsFrom(n, StartIndex(n)) : i <= h) /\ ReachedSlot(n, i)) =>
          /\ Returned(n) = BT_ERROR
          /\ nodes[n].status = BT_ERROR
          /\ nodes[n].current_child = i
          /\ (nodes[n].on_exit /= BT_NULL => Len(Evs("exit", n)) = 1)
          /\ Len(ChildRets(n)) = i - StartIndex(n)
          /\ \A j \in 1..Len(ChildRets(n)) :
               ChildRets(n)[j].node = nodes[n].children[StartIndex(n) + j]

\* a three-child Selector whose slot 2 is null: children 0 and 1 failed and
\* the tick ended in Error at slot 2
C22_Witness ==
  \E n \in Ids :
    /\ nodes[n].type = BT_SELECTOR /\ Ticked(n)
    /\ nodes[n].children_count = 3
    /\ NullSlotsFrom(n, 0) = {2}
    /\ Len(ChildRets(n)) = 2
    /\ Returned(n) = BT_ERROR /\ nodes[n].current_child = 2
    /\ Len(Evs("exit", n)) = 1

\* C23: a tick of an Action or Condition leaf without tick callback returns
\* Error and leaves the leaf's status Error; nothing is invoked during it, no
\* callback and no hook; its parent takes the result as a child's Error: it
\* returns Error, and a Sequence or Selector stops there with status Error
\* and the cursor at the leaf.
C23_LeafWithoutCallback ==
  \A n \in Ids :
    (nodes[n].type \in {BT_ACTION, BT_CONDITION} /\ nodes[n].tick = BT_NULL /\ Ticked(n))
      => /\ Returned(n) = BT_ERROR
         /\ nodes[n].status = BT_ERROR
         /\ Pos("ret", n) = Pos("tick", n) + 1
         /\ Evs("tick_fn", n) = <<>> /\ Evs("enter", n) = <<>> /\ Evs("exit", n) = <<>>
         /\ \A p \in Ids :
              (n \in ChildSet(p) /\ Ticked(p)) =>
                /\ Returned(p) = BT_ERROR
                /\ IsComposite(p) =>
                     /\ nodes[p].status = BT_ERROR
                     /\ ChildRets(p)[Len(ChildRets(p))].node = n
                     /\ bt_child_at([nodes |-> nodes], p, nodes[p].current_child) = n

\* a Selector whose child 0 failed and whose child 1, a leaf without
\* callback and with hooks set, made it return Error
C23_Witness ==
  \E n, p \in Ids :
    /\ nodes[n].type \in {BT_ACTION, BT_CONDITION} /\ nodes[n].tick = BT_NULL /\ Ticked(n)
    /\ nodes[n].on_enter /= BT_NULL /\ nodes[n].on_exit /= BT_NULL
    /\ nodes[p].type = BT_SELECTOR /\ n \in ChildSet(p) /\ Ticked(p)
    /\ nodes[p].current_child = 1
    /\ Returned(p) = BT_ERROR

\* C24: ticking an Action or Condition leaf never invokes on_enter or
\* on_exit on it, hooks set or not, whatever its callback returns.
C24_LeafHooks ==
  \A n \in Ids :
    nodes[n].type \in {BT_ACTION, BT_CONDITION}
      => /\ Evs("enter", n) = <<>> /\ Evs("exit", n) = <<>>
         /\ enter_calls[n] = 0 /\ exit_calls[n] = 0

\* a leaf with both hooks set was ticked in each of three calls and its
\* callback has just returned Success after Running
C24_Witness ==
  \E n \in Ids :
    /\ nodes[n].type \in {BT_ACTION, BT_CONDITION} /\ HasHooks(n)
    /\ Ticked(n) /\ tick_calls[n] = 3
    /\ prev[n].status = BT_RUNNING /\ Returned(n) = BT_SUCCESS
    /\ enter_calls[n] = 0 /\ exit_calls[n] = 0

\* C25: a tick of a non-null node whose type tag is none of Action,
\* Condition, Sequence, Selector, Inverter returns Error and leaves the
\* node's status Error; nothing is invoked during it: no callback, no hook,
\* no child.
C25_BadType ==
  \A n \in Ids :
    (nodes[n].type \notin {BT_ACTION, BT_CONDITION, BT_SEQUENCE, BT_SELECTOR, BT_INVERTER}
       /\ Ticked(n))
      => /\ Returned(n) = BT_ERROR
         /\ nodes[n].status = BT_ERROR
         /\ Pos("ret", n) = Pos("tick", n) + 1
         /\ Evs("tick_fn", n) = <<>> /\ Evs("enter", n) = <<>> /\ Evs("exit", n) = <<>>
         /\ \A c \in ChildSet(n) : ~Ticked(c)

\* a node with a bad type tag, hooks set and a child with a callback was
\* ticked a second time
C25_Witness ==
  \E n \in Ids :
    /\ nodes[n].type = BadType /\ Ticked(n)
    /\ HasHooks(n) /\ ChildSet(n) /= {}
    /\ \A c \in ChildSet(n) : nodes[c].tick /= BT_NULL /\ tick_calls[c] = 0
    /\ ticks = 2 /\ prev[n].status = BT_ERROR
    /\ Returned(n) = BT_ERROR

\* the most recent call ticked n, and no call before it did
FirstTick(n) ==
  /\ Ticked(n)
  /\ \A i \in 1..(Len(hist) - 1) : ~TickedIn(hist[i].trace, n)

\* C26: the first tick of a Sequence, Selector or one-child Inverter after
\* bt_init is a fresh episode: the node is not Running and its cursor is 0,
\* on_enter (set after bt_init) fires in that tick before any child is
\* ticked, and the first child ticked is child 0.
C26_FirstTick ==
  \A n \in Ids :
    (/\ \/ nodes[n].type \in {BT_SEQUENCE, BT_SELECTOR}
        \/ nodes[n].type = BT_INVERTER /\ nodes[n].children_count = 1
     /\ FirstTick(n))
      => /\ Entered(n) /= BT_RUNNING
         /\ prev[n].current_child = 0
         /\ StartsAfresh(n)

\* an inner Inverter, with hooks, first ticked by the second call to the
\* root: on_enter fired and its child was ticked
C26_Witness ==
  \E n \in Ids \ {root} :
    /\ nodes[n].type = BT_INVERTER /\ nodes[n].children_count = 1
    /\ Len(hist) = 2 /\ FirstTick(n)
    /\ Len(Evs("enter", n)) = 1 /\ enter_calls[n] = 1
    /\ Len(ChildRets(n)) = 1

\* C27: whenever on_exit is invoked on a Sequence, Selector or Inverter, the
\* node's status already is the terminal result (Success, Failure or Error)
\* that this tick returns for the node, never Running; whenever on_enter is
\* invoked on one, the node's status is not Running.
C27_StatusAtHooks ==
  \A i \in 1..Len(trace) :
    nodes[trace[i].node].type \in {BT_SEQUENCE, BT_SELECTOR, BT_INVERTER} =>
      /\ trace[i].ev = "exit" =>
           /\ trace[i].status \in Terminal
           /\ trace[i].status = Returned(trace[i].node)
           /\ trace[i].status = nodes[trace[i].node].status
      /\ trace[i].ev = "enter" => trace[i].status /= BT_RUNNING

\* a Sequence that was Running has exhausted its children: on_exit saw the
\* status Success; in the same call an Inverter's on_exit saw Failure
C27_Witness ==
  \E i, j \in 1..Len(trace) :
    /\ trace[i].ev = "exit" /\ nodes[trace[i].node].type = BT_SEQUENCE
    /\ prev[trace[i].node].status = BT_RUNNING
    /\ trace[i].status = BT_SUCCESS
    /\ trace[j].ev = "exit" /\ nodes[trace[j].node].type = BT_INVERTER
    /\ trace[j].status = BT_FAILURE

(* ===== Claims on whole traversals ===== *)

\* the nodes below n
RECURSIVE Descendants(_)

Descendants(n) == ChildSet(n) \cup UNION { Descendants(c) : c \in ChildSet(n) }

\* the user callbacks invoked in a log, in order
LeafCallsIn(tr) == SelectSeq(tr, LAMBDA e : e.ev = "tick_fn")

\* C28: in a well-formed tree a tick of the root returns Running if and only
\* if the last leaf callback invoked in that tick returned Running; then the
\* leaf and every ancestor of it up to the root have status Running; and the
\* next tick of the root invokes that leaf's callback first and returns
\* Running again if the leaf does.
C28_RunningLeaf ==
  (WellFormed /\ arg = root) =>
    /\ (result = BT_RUNNING)
         <=> (LeafCalls /= <<>> /\ LeafCalls[Len(LeafCalls)].status = BT_RUNNING)
    /\ result = BT_RUNNING =>
         \A p \in Ids :
           (p = LeafCalls[Len(LeafCalls)].node \/ LeafCalls[Len(LeafCalls)].node \in Descendants(p))
             => nodes[p].status = BT_RUNNING
    /\ (/\ Len(hist) >= 2
        /\ hist[Len(hist) - 1].arg = root
        /\ hist[Len(hist) - 1].result = BT_RUNNING) =>
         LET before == LeafCallsIn(hist[Len(hist) - 1].trace)
         IN /\ LeafCalls /= <<>>
            /\ LeafCalls[1].node = before[Len(before)].node
            /\ LeafCalls[1].status = BT_RUNNING => (result = BT_RUNNING /\ Len(LeafCalls) = 1)

\* the second leaf of the inner composite of a nested tree returned Running
\* in three ticks running; root and inner composite are Running
C28_Witness ==
  /\ WellFormed /\ arg = root /\ Len(hist) = 3
  /\ \A i \in 1..3 : hist[i].arg = root /\ hist[i].result = BT_RUNNING
  /\ \E p \in Ids \ {root} :
       /\ nodes[p].children_count = 2
       /\ LeafCalls[Len(LeafCalls)].node = nodes[p].children[2]
       /\ nodes[p].status = BT_RUNNING
  /\ nodes[root].status = BT_RUNNING

\* the events from the dispatch of n to its return
Span(n) == Pos("tick", n)..Pos("ret", n)

\* C29: a bt_tick call on a tree returns within the call, after a bounded
\* number of steps: the trace starts with the dispatch of the root and ends
\* with its return, and has at most four events per node. Each node is
\* dispatched at most once and returns once, each leaf callback is invoked at
\* most once (no retry). The traversal is depth-first in increasing child
\* index order: a node other than the root is dispatched only inside the
\* dispatch of its parent, what happens inside the dispatch of a node happens
\* to it or below it, and a child is dispatched only after the children
\* before it have returned.
C29_Traversal ==
  (arg = root /\ arg /= BT_NULL) =>
    /\ IsEv(trace[1], "tick", root) /\ IsEv(trace[Len(trace)], "ret", root)
    /\ Len(trace) <= 4 * Cardinality(Ids)
    /\ \A n \in Ids :
         /\ Len(Evs("tick", n)) <= 1
         /\ Len(Evs("ret", n)) = Len(Evs("tick", n))
         /\ Len(Evs("tick_fn", n)) <= 1
         /\ Ticked(n) =>
              /\ Pos("tick", n) < Pos("ret", n)
              /\ n /= root => \E p \in Ids : n \in ChildSet(p) /\ Ticked(p)
              /\ \A i \in Span(n) : trace[i].node = n \/ trace[i].node \in Descendants(n)
              /\ \A i \in 1..Len(trace) : trace[i].node = n => i \in Span(n)
              /\ \A j, k \in 1..Len(nodes[n].children) :
                   (/\ j < k
                    /\ nodes[n].children[j] /= BT_NULL /\ nodes[n].children[k] /= BT_NULL
                    /\ Ticked(nodes[n].children[k]))
                     => /\ Ticked(nodes[n].children[j]) \/ StartIndex(n) >= j
                        /\ Ticked(nodes[n].children[j])
                             => Pos("ret", nodes[n].children[j]) < Pos("tick", nodes[n].children[k])

\* a nested tree traversed to its last leaf: all five nodes dispatched, three
\* callbacks invoked
C29_Witness ==
  /\ arg = root /\ Cardinality(Ids) = 5
  /\ \A n \in Ids : Ticked(n)
  /\ Len(LeafCalls) = 3
  /\ \E p \in Ids \ {root} : Len(ChildRets(p)) = 2

\* node record n of arena ns without its status and cursor
Configuration(ns, n) ==
  [type |-> ns[n].type, tick |-> ns[n].tick, on_enter |-> ns[n].on_enter,
   on_exit |-> ns[n].on_exit, children |-> ns[n].children,
   children_count |-> ns[n].children_count, user_data |-> ns[n].user_data,
   blackboard |-> ns[n].blackboard, time_anchor_ms |-> ns[n].time_anchor_ms]

\* C30: a tick changes no node's type, children list, children_count, tick
\* callback, hooks, user_data or blackboard; on a node it visits it writes
\* only the status and, on a Sequence or Selector only, the cursor; a node it
\* does not visit is unchanged.
C30_Frame ==
  ticks > 0 =>
    \A n \in Ids :
      /\ Configuration(nodes, n) = Configuration(prev, n)
      /\ nodes[n].type \notin {BT_SEQUENCE, BT_SELECTOR}
           => nodes[n].current_child = prev[n].current_child
      /\ ~Ticked(n) => nodes[n] = prev[n]

\* a tick of a nested tree that changed the status of an Inverter and a leaf
\* and the cursor of a Sequence, and left a node unvisited
C30_Witness ==
  /\ ticks > 0
  /\ \E n \in Ids : nodes[n].type = BT_INVERTER /\ Ticked(n) /\ nodes[n].status /= prev[n].status
  /\ \E n \in Ids : nodes[n].type \in {BT_ACTION, BT_CONDITION} /\ Ticked(n)
                    /\ nodes[n].status /= prev[n].status
  /\ \E n \in Ids : nodes[n].type = BT_SEQUENCE /\ Ticked(n)
                    /\ nodes[n].current_child /= prev[n].current_child
  /\ \E n \in Ids : ~Ticked(n)

\* the dual of a node type: Sequence and Selector exchanged
DualType(t) ==
  CASE t = BT_SEQUENCE -> BT_SELECTOR
    [] t = BT_SELECTOR -> BT_SEQUENCE
    [] OTHER -> t

\* the arena ns as bt_init and the wiring left it, before any tick
AsConstructed(ns) ==
  [n \in DOMAIN ns |-> [ns[n] EXCEPT !.status = BT_FAILURE, !.current_child = UINT16_ZERO]]

\* the dual tree: the same nodes with every Sequence and Selector exchanged
DualTree(ns) == [n \in DOMAIN ns |-> [ns[n] EXCEPT !.type = DualType(ns[n].type)]]

\* the results the callbacks returned in the log tr, with Success and Failure
\* exchanged (a callback that was not invoked has no result to exchange)
DualCallbacks(ns, tr) ==
  [n \in Callbacks(ns) |->
     LET calls == SelectSeq(tr, LAMBDA e : IsEv(e, "tick_fn", n))
     IN IF calls = <<>> THEN BT_SUCCESS ELSE Swapped(calls[1].status)]

\* the calls h made on the dual tree with the exchanged callback results:
\* the outcome of the last call
RECURSIVE DualRun(_, _)

DualRun(h, ns) ==
  IF h = <<>>
    THEN Ret([nodes |-> DualTree(AsConstructed(ns)), cb |-> DualCallbacks(ns, <<>>), log |-> <<>>],
             NoTick)
    ELSE LET before == DualRun(SubSeq(h, 1, Len(h) - 1), ns)
             last == h[Len(h)]
         IN bt_tick([nodes |-> before.m.nodes, cb |-> DualCallbacks(ns, last.trace), log |-> <<>>],
                    last.arg)

\* the events of a log without the statuses: which node was dispatched,
\* entered, called, exited and returned, in order
Shape(tr) == [i \in 1..Len(tr) |-> <<tr[i].ev, tr[i].node>>]

\* C31: Selector is the Success/Failure dual of Sequence.  The calls made on
\* a tree whose root is a Selector, replayed on the tree with Sequence and
\* Selector exchanged and every callback result swapped, give on every call
\* the swapped result, the same cursor in every node, the same nodes ticked
\* in the same order and the same on_enter and on_exit firings, and leave
\* every ticked node with the swapped status.
C31_Duality ==
  (ticks > 0 /\ Len(hist) = ticks /\ nodes[root].type = BT_SELECTOR) =>
    LET dual == DualRun(hist, nodes)
    IN /\ dual.result = Swapped(result)
       /\ Shape(dual.m.log) = Shape(trace)
       /\ \A n \in Ids :
            /\ dual.m.nodes[n].current_child = nodes[n].current_child
            /\ dual.m.nodes[n].type = DualType(nodes[n].type)
            /\ (\E i \in 1..Len(hist) : TickedIn(hist[i].trace, n))
                 => dual.m.nodes[n].status = Swapped(nodes[n].status)

\* a Selector of two children that returned Running at its second child and
\* failed by exhaustion when resumed
C31_Witness ==
  /\ Len(hist) = 2 /\ nodes[root].type = BT_SELECTOR /\ nodes[root].children_count = 2
  /\ hist[1].arg = root /\ hist[1].result = BT_RUNNING
  /\ arg = root /\ result = BT_FAILURE
  /\ nodes[root].current_child = 2
  /\ DualRun(hist, nodes).result = BT_SUCCESS

\* the child of n at its cursor (BT_NULL for a null slot or a null array)
ChildAtCursor(n) == bt_child_at([nodes |-> nodes], n, nodes[n].current_child)

\* the child at the cursor of n was ticked in the most recent call, was the
\* last child of n ticked, and returned what n returned
CursorChildProduced(n) ==
  LET c == ChildAtCursor(n)
      rets == ChildRets(n)
  IN /\ c /= BT_NULL
     /\ rets /= <<>>
     /\ rets[Len(rets)].node = c
     /\ rets[Len(rets)].status = Returned(n)

\* the cursor of n is at a null slot, at which the tick of n stopped with
\* Error, after every child it ticked before had let it advance
CursorAtNullSlot(n) ==
  /\ ChildAtCursor(n) = BT_NULL
  /\ Returned(n) = BT_ERROR
  /\ \A j \in 1..Len(ChildRets(n)) : ChildRets(n)[j].status = Advances(n)

\* C32 as stated: after a tick of a Sequence or Selector the cursor equals
\* children_count exactly when the tick exhausted the children (Sequence
\* Success, Selector Failure); after any other result the cursor is below
\* children_count and identifies the child that produced the result.
C32_CursorAsStated ==
  \A n \in Ids :
    (IsComposite(n) /\ Ticked(n)) =>
      /\ nodes[n].current_child = nodes[n].children_count <=> Returned(n) = Advances(n)
      /\ Returned(n) /= Advances(n)
           => /\ nodes[n].current_child < nodes[n].children_count
              /\ CursorChildProduced(n)

\* C32: after a tick of a Sequence or Selector the cursor equals
\* children_count exactly when the tick exhausted the children (Sequence
\* Success, Selector Failure); after any other result the cursor is below
\* children_count and identifies either the child that produced the result
\* or, for Error only, the null child slot at which the tick stopped.
C32_Cursor ==
  \A n \in Ids :
    (IsComposite(n) /\ Ticked(n)) =>
      /\ nodes[n].current_child = nodes[n].children_count <=> Returned(n) = Advances(n)
      /\ Returned(n) /= Advances(n)
           => /\ nodes[n].current_child < nodes[n].children_count
              /\ CursorChildProduced(n) \/ CursorAtNullSlot(n)

\* one call in which a nested Sequence or Selector exhausted its two children
\* and the root stopped below its children_count at the child that decided
C32_Witness ==
  /\ arg = root /\ IsComposite(root) /\ Ticked(root)
  /\ Returned(root) /= Advances(root)
  /\ nodes[root].current_child = 1 /\ CursorChildProduced(root)
  /\ \E n \in Ids \ {root} :
       /\ IsComposite(n) /\ Ticked(n) /\ Returned(n) = Advances(n)
       /\ nodes[n].current_child = 2 /\ nodes[n].children_count = 2

\* node p, Running, points at node n: n is the child at the cursor of a
\* Sequence or Selector p, or the child of an Inverter p
PointsAt(p, n) ==
  /\ nodes[p].status = BT_RUNNING
  /\ \/ IsComposite(p) /\ ChildAtCursor(p) = n
     \/ nodes[p].type = BT_INVERTER /\ bt_child_at([nodes |-> nodes], p, UINT16_ZERO) = n

\* C33: the Running nodes of a well-formed tree of which only the root is
\* ticked form one chain from the root.  After every call every Running
\* Sequence or Selector has its cursor below children_count at a child that
\* is Running, every Running Inverter has a Running child, every Running node
\* other than the root has a Running parent pointing at it, and a tick of the
\* root dispatches every node that was Running before it.
C33_RunningChain ==
  WellFormed =>
    \A n \in Ids :
      /\ (IsComposite(n) /\ nodes[n].status = BT_RUNNING)
           => /\ nodes[n].current_child < nodes[n].children_count
              /\ nodes[ChildAtCursor(n)].status = BT_RUNNING
      /\ (nodes[n].type = BT_INVERTER /\ nodes[n].status = BT_RUNNING)
           => nodes[nodes[n].children[1]].status = BT_RUNNING
      /\ (n /= root /\ nodes[n].status = BT_RUNNING)
           => \E p \in Ids : PointsAt(p, n)
      /\ (ticks > 0 /\ arg = root /\ prev[n].status = BT_RUNNING) => Ticked(n)

\* a nested tree with a chain of three Running nodes (root, inner node, leaf)
\* that the next tick of the root followed to the leaf, which then finished
C33_Witness ==
  /\ WellFormed /\ ticks = 2 /\ arg = root
  /\ \E n \in Ids \ {root} : \E l \in ChildSet(n) :
       /\ n \in ChildSet(root)
       /\ prev[root].status = BT_RUNNING /\ prev[n].status = BT_RUNNING
       /\ prev[l].status = BT_RUNNING
       /\ Ticked(l) /\ nodes[l].status /= BT_RUNNING
       /\ nodes[n].status /= BT_RUNNING

\* the events of the calls h, in order
RECURSIVE FlatLog(_)

FlatLog(h) == IF h = <<>> THEN <<>> ELSE FlatLog(SubSeq(h, 1, Len(h) - 1)) \o h[Len(h)].trace

IsHook(e, n) == e.node = n /\ e.ev \in {"enter", "exit"}

\* in log g the last hook invoked on node n before position i is on_enter
InsideEpisode(g, n, i) ==
  \E a \in 1..(i - 1) :
    /\ IsEv(g[a], "enter", n)
    /\ \A j \in (a + 1)..(i - 1) : ~IsHook(g[j], n)

\* in log g the first hook invoked on node n after position i, if any, is
\* on_exit
ExitNext(g, n, i) ==
  \A b \in (i + 1)..Len(g) :
    (IsHook(g[b], n) /\ \A j \in (i + 1)..(b - 1) : ~IsHook(g[j], n)) => g[b].ev = "exit"

\* C34: hook nesting.  Over the whole run of calls on the root, for every
\* Sequence, Selector and Inverter with hooks: on_enter is invoked straight
\* after the node is dispatched not Running, every tick of a child lies
\* between an on_enter of the node and the on_exit that follows it, and
\* on_exit is followed at once by the terminal return of the node.  For a
\* node other than the root, each of its on_enter and on_exit calls lies
\* inside an episode of its parent, and no hook of the parent is invoked
\* between its on_enter and the matching on_exit.
C34_HookNesting ==
  LET g == FlatLog(hist)
  IN Len(hist) = ticks =>
       \A n \in Ids :
         (nodes[n].type \in {BT_SEQUENCE, BT_SELECTOR, BT_INVERTER} /\ HasHooks(n)) =>
           /\ \A i \in 1..Len(g) :
                /\ IsEv(g[i], "enter", n)
                     => i > 1 /\ IsEv(g[i - 1], "tick", n) /\ g[i - 1].status /= BT_RUNNING
                /\ IsEv(g[i], "exit", n)
                     => /\ i < Len(g) /\ IsEv(g[i + 1], "ret", n) /\ g[i + 1].status \in Terminal
                        /\ InsideEpisode(g, n, i)
                /\ (g[i].ev = "tick" /\ g[i].node \in ChildSet(n))
                     => InsideEpisode(g, n, i) /\ ExitNext(g, n, i)
           /\ \A c \in ChildSet(n) :
                (nodes[c].type \in {BT_SEQUENCE, BT_SELECTOR, BT_INVERTER} /\ HasHooks(c)) =>
                  \A i \in 1..Len(g) :
                    /\ IsHook(g[i], c) => InsideEpisode(g, n, i) /\ ExitNext(g, n, i)
                    /\ IsEv(g[i], "exit", c)
                         => \E a \in 1..(i - 1) :
                              /\ IsEv(g[a], "enter", c)
                              /\ \A j \in (a + 1)..(i - 1) : ~IsHook(g[j], c) /\ ~IsHook(g[j], n)

\* an inner Sequence, Selector or Inverter whose episode took the second and
\* third tick of one episode of the root that took three
C34_Witness ==
  /\ Len(hist) = 3 /\ ticks = 3
  /\ \E c \in ChildSet(root) :
       /\ nodes[c].type \in {BT_SEQUENCE, BT_SELECTOR, BT_INVERTER} /\ HasHooks(c)
       /\ \E i \in 1..Len(hist[2].trace) : IsEv(hist[2].trace[i], "enter", c)
       /\ \E i \in 1..Len(trace) : IsEv(trace[i], "exit", c)
       /\ \E i \in 1..Len(hist[1].trace) : IsEv(hist[1].trace[i], "enter", root)
       /\ \A i \in 1..Len(hist[2].trace) : ~IsHook(hist[2].trace[i], root)
       /\ \E i \in 1..Len(trace) : IsEv(trace[i], "exit", root)
       /\ \A i \in 1..Len(trace) : ~IsEv(trace[i], "enter", root)

\* in the calls h every callback invocation returned a result other than
\* Running, and each callback returned the same result every time
ConstantCallbacks(h) ==
  LET g == FlatLog(h)
  IN \A i \in 1..Len(g) :
       g[i].ev = "tick_fn" =>
         /\ g[i].status /= BT_RUNNING
         /\ \A j \in 1..Len(g) :
              (g[j].ev = "tick_fn" /\ g[j].node = g[i].node) => g[j].status = g[i].status

\* C35: idempotence on Running-free trees.  In a well-formed tree whose
\* callbacks never return Running and return the same result every time,
\* every tick of the root is a fresh episode of every Sequence, Selector and
\* Inverter it reaches (dispatched not Running, on_enter fired, children
\* ticked from child 0), and from the second tick on the call returns what
\* the previous call returned and leaves every node with the status and the
\* cursor it had after the previous call.
C35_Idempotence ==
  (/\ WellFormed /\ ticks >= 1 /\ Len(hist) = ticks
   /\ \A i \in 1..Len(hist) : hist[i].arg = root
   /\ ConstantCallbacks(hist)) =>
    /\ \A n \in Ids :
         /\ (Ticked(n) /\ nodes[n].type \in {BT_SEQUENCE, BT_SELECTOR, BT_INVERTER})
              => Entered(n) /= BT_RUNNING /\ Len(Evs("enter", n)) = 1
         /\ (Ticked(n) /\ IsComposite(n)) => StartsAfresh(n)
    /\ ticks >= 2 =>
         /\ result = hist[ticks - 1].result
         /\ \A n \in Ids :
              /\ nodes[n].status = prev[n].status
              /\ nodes[n].current_child = prev[n].current_child
              /\ Ticked(n) <=> TickedIn(hist[ticks - 1].trace, n)

\* a nested well-formed tree ticked three times with constant callbacks: the
\* inner node left its cursor at its second child each time
C35_Witness ==
  /\ WellFormed /\ ticks = 3 /\ Len(hist) = 3
  /\ \A i \in 1..3 : hist[i].arg = root
  /\ ConstantCallbacks(hist)
  /\ Len(LeafCalls) = 3
  /\ \E n \in Ids \ {root} : IsComposite(n) /\ Ticked(n) /\ nodes[n].current_child = 1
  /\ nodes = prev /\ result = hist[1].result

\* C36: the 16-bit cursor and loop index never wrap.  At every step of a
\* tick of a Sequence or Selector of children_count children (up to 65535)
\* the loop index is at most children_count; while every child ticked so far
\* let the node advance, the cursor equals the loop index and the number of
\* child ticks made, so each child before the index was ticked exactly once;
\* and when such a tick ends, the cursor equals children_count, every child
\* was ticked once and the node returns Success (Sequence) or Failure
\* (Selector).
C36_NoWrap ==
  frame.pc \in {"loop", "finish", "done"} =>
    /\ frame.i <= nodes[root].children_count
    /\ nodes[root].current_child <= nodes[root].children_count
    /\ frame.result = Advances(root) =>
         /\ nodes[root].current_child = frame.i
         /\ tick_calls[2] = frame.i
         /\ frame.pc \in {"finish", "done"}
              => /\ nodes[root].current_child = nodes[root].children_count
                 /\ tick_calls[2] = nodes[root].children_count
         /\ frame.pc = "done"
              => result = Advances(root) /\ nodes[root].status = Advances(root)

\* a Sequence of 65535 always-Success children ended its tick with the
\* cursor at 65535 after 65535 child ticks
C36_Witness ==
  /\ frame.pc = "done" /\ nodes[root].type = BT_SEQUENCE
  /\ nodes[root].children_count = UINT16_MOD - 1
  /\ nodes[root].current_child = UINT16_MOD - 1
  /\ tick_calls[2] = UINT16_MOD - 1
  /\ result = BT_SUCCESS /\ exit_calls[root] = 1

====
